---- MODULE Spec2Model ----
(***************************************************************************)
(* Model of the plugin lifecycle manager (PluginManager) and of the budget *)
(* tracker (BudgetTracker) of bnema/claude-code-go.                        *)
(*                                                                         *)
(* PluginManager: goroutines call the manager's methods; every method is   *)
(* cut at the points where another goroutine can observe it: the call, the *)
(* two halves of sync.RWMutex.Lock, RLock, every hook invocation of a      *)
(* loop, and the return (where the deferred unlock runs).                  *)
(***************************************************************************)
EXTENDS Integers, Sequences, FiniteSets, Bags, TLC

\* ------------------------------------------------------------- bounds
\* plugin names in use
MaxPlugins == 2
\* significant bits of the model's binary floating point (float64 has 53)
MantissaBits == 4
\* AddSpend is not called when it would take a total beyond this magnitude
MaxSpend == 18
\* callback goroutines that may be waiting to run
MaxSpawned == 2
\* largest total spent while callbacks are configured: above the budget of 10
MaxCbSpend == 12
\* longest chain of permission callbacks
MaxChain == 3
\* longest permission string
MaxLen == 7
\* longest pattern and longest path given to MatchesPattern, longest file
\* path given to the callback of FilePathCallback
MaxPath == 4
\* longest list of allowed paths and of denied paths
MaxPrefixes == 2

\* ---------------------------------------------------------- constants
DefaultPriority == 100

\* goroutines calling into one manager; Main alone runs the sequential
\* specification
Threads == {1, 2}
Main == CHOOSE t \in Threads : \A u \in Threads : t <= u
AllNames == <<"a", "b", "c", "d">>
Names == {AllNames[k] : k \in 1..MaxPlugins}
NameIdx(n) == CHOOSE k \in 1..MaxPlugins : AllNames[k] = n
EmptyName == ""
NilPlugin == "<nil>"
\* Priority values a caller writes into a PluginConfig
PriorityValues == {0, 50}
\* *PluginConfig objects live on a heap; 0 is the nil pointer
NilCfg == 0
CfgIds == 1..MaxPlugins

NoErr == [msg |-> "nil", plugin |-> "", cause |-> "nil"]
HookErr == "hook failed"
Err(m, p) == [msg |-> m, plugin |-> p, cause |-> "nil"]
\* fmt.Errorf("...'%s'...: %w", name, err)
Wrap(m, p, e) == [msg |-> m, plugin |-> p, cause |-> e]

WriteOps == {"Register", "Unregister", "Initialize", "Shutdown", "SetEnabled"}
DispatchOps == {"OnToolCall", "OnMessage", "OnComplete"}
ReadOps == DispatchOps \cup {"List", "Get", "Count"}

VARIABLES
  plugins,      \* pm.plugins: sequence of pluginEntry
  configs,      \* heap of PluginConfig objects, by pointer
  initialized,  \* pm.initialized
  mu,           \* pm.mu: [w: writers past w.Lock, readers: holders of RLock]
  thr,          \* per goroutine: position in the method it runs, and its locals
  regOrder,     \* history: registered names, oldest registration first
  regCount,     \* history: successful Register(n) since n was last removed
  life,         \* history: the last Initialize or Shutdown call that returned
  totalSpent,     \* bt.totalSpent
  sessionSpent,   \* bt.sessionSpent: per session id, whether the key is present, its value
  config,         \* bt.config
  warningEmitted, \* bt.warningEmitted
  spawned,        \* callback goroutines started by "go" that have not run yet
  addErr,         \* what the last AddSpend returned
  reached,        \* history: since the latch was last re-armed, some AddSpend
                  \* brought the total to the warning amount
  warnings,       \* history: warning callbacks started since the last re-arming
  btmu,           \* bt.mu, as pm.mu
  bthr,           \* per goroutine calling the tracker: position and locals
  ledger,         \* history: the amounts of the AddSpend calls, added up in the
                  \* order in which the calls took the lock
  chain,          \* one call of the callback that ChainCallbacks returns
  parse,          \* one call of ParseToolPermission, then of String and of
                  \* ParseToolPermission on what String returned
  match,          \* one call of MatchesPattern
  scope,          \* one call of the callback that FilePathCallback returns
  nested          \* one call of each of three chains of the same functions

pmVars == <<plugins, configs, initialized, mu, thr, regOrder, regCount, life>>
\* the tracker's fields and what it has started and returned
btData == <<totalSpent, sessionSpent, config, warningEmitted, spawned, addErr,
            reached, warnings>>
\* the goroutines calling the tracker
btConc == <<btmu, bthr, ledger>>
btVars == <<totalSpent, sessionSpent, config, warningEmitted, spawned, addErr,
            reached, warnings, btmu, bthr, ledger>>
vars == <<plugins, configs, initialized, mu, thr, regOrder, regCount, life,
          totalSpent, sessionSpent, config, warningEmitted, spawned, addErr,
          reached, warnings, btmu, bthr, ledger, chain, parse,
          match, scope, nested>>
\* the calls of the permission functions
fnVars == <<chain, parse, match, scope, nested>>

\* ----------------------------------------------------------- helpers
\* the config argument of Register: nil, a config the caller has just built,
\* or a pointer the caller has passed to Register before
NoCfgArg == [kind |-> "nil", id |-> NilCfg, Enabled |-> FALSE, Priority |-> 0]
NewCfgArg(e, p) == [kind |-> "new", id |-> NilCfg, Enabled |-> e, Priority |-> p]
PtrCfgArg(c) == [kind |-> "ptr", id |-> c, Enabled |-> FALSE, Priority |-> 0]
NewCfgArgs == {NewCfgArg(e, p) : e \in BOOLEAN, p \in PriorityValues}
\* (the configs the manager allocates itself, lines 86-89 and 266, have the
\* priority 100 and no caller holds a pointer to them)
AnyCfgArgs(ps) ==
  {NoCfgArg} \cup NewCfgArgs \cup
  {PtrCfgArg(ps[k].config) :
     k \in {l \in 1..Len(ps) : configs[ps[l].config].Priority \in PriorityValues}}
NilCfgArgs(ps) == {NoCfgArg}

FreshConfig == [Enabled |-> FALSE, Priority |-> 0]
\* no Initialize or Shutdown call has returned
NoLife == [op |-> "none", was |-> FALSE, failed |-> FALSE, done |-> <<>>]
NoPre == [plugins |-> <<>>, configs |-> <<>>, initialized |-> FALSE]

Idle ==
  [pc |-> "idle", op |-> "none", plugin |-> NilPlugin, enabled |-> FALSE,
   i |-> 0, err |-> NoErr, calls |-> <<>>, val |-> <<>>, pre |-> NoPre]

NameList(ps) == [k \in 1..Len(ps) |-> ps[k].plugin]
NameSet(ps) == {ps[k].plugin : k \in 1..Len(ps)}
Positions(ps, n) == {k \in 1..Len(ps) : ps[k].plugin = n}
Min(S) == CHOOSE x \in S : \A y \in S : x <= y
InsertAt(s, k, e) == SubSeq(s, 1, k - 1) \o <<e>> \o SubSeq(s, k, Len(s))
RemoveAt_Tail(s, k) == SubSeq(s, 1, k - 1)
RemoveAt(s, k) == SubSeq(s, 1, k - 1) \o SubSeq(s, k + 1, Len(s))
Reverse(s) == [k \in 1..Len(s) |-> s[Len(s) - k + 1]]

\* entry.config != nil && !entry.config.Enabled
Disabled_Never(cf, e) == FALSE
Disabled(cf, e) == e.config # NilCfg /\ ~cf[e.config].Enabled

\* config objects some entry still points to
LiveCfgs(ps) == {ps[k].config : k \in 1..Len(ps)}
\* a config object nothing refers to is garbage: keep it in one canonical form
Collect(cf, ps) == [c \in CfgIds |-> IF c \in LiveCfgs(ps) THEN cf[c] ELSE FreshConfig]
\* address of a newly allocated config object for the plugin named n
FreshId(n, ps) ==
  IF NameIdx(n) \notin LiveCfgs(ps) \/ CfgIds \subseteq LiveCfgs(ps)
  THEN NameIdx(n) ELSE Min(CfgIds \ LiveCfgs(ps))

\* which half of the RWMutex each method takes
LockKind_ShutdownRLock(op) ==
  IF op \in WriteOps \ {"Shutdown"} THEN "Lock" ELSE "RLock"
LockKind_SetEnabledRLock(op) ==
  IF op \in WriteOps \ {"SetEnabled"} THEN "Lock" ELSE "RLock"
LockKind_RegisterRLock(op) == IF op \in WriteOps \ {"Register"} THEN "Lock" ELSE "RLock"
LockKind(op) == IF op \in WriteOps THEN "Lock" ELSE "RLock"

\* ---------------------------------------------------------------------
\* BudgetTracker
\* ---------------------------------------------------------------------
\* float64 arithmetic, with MantissaBits significant bits instead of 53: an
\* amount is a whole number of units, and every sum, difference and product
\* is rounded to the nearest representable value, ties to the even mantissa
RECURSIVE Pow2(_)
Pow2(n) == IF n = 0 THEN 1 ELSE 2 * Pow2(n - 1)
RECURSIVE Ulp(_)
Ulp(a) == IF a < Pow2(MantissaBits) THEN 1 ELSE 2 * Ulp(a \div 2)
RoundMag(a) ==
  LET u == Ulp(a)
      q == a \div u
      r == a % u
  IN IF 2 * r < u THEN q * u
     ELSE IF 2 * r > u THEN (q + 1) * u
     ELSE IF q % 2 = 0 THEN q * u ELSE (q + 1) * u
Fl(x) == IF x < 0 THEN 0 - RoundMag(0 - x) ELSE RoundMag(x)
FAdd(a, b) == Fl(a + b)
FSub(a, b) == Fl(a - b)

SessionIds == {"s1", "s2"}
Amounts == {1, 5, 6, 12}
\* WarningThreshold in halves: 0 and 0.5
ThresholdHalves == {0, 1}
\* MaxBudgetUSD * WarningThreshold
FMulThreshold(max, halves) == Fl((max * halves) \div 2)

\* configs a caller passes; a callback is set (TRUE) or nil (FALSE)
BudgetConfigs(callbacks) ==
  [MaxBudgetUSD : {0, 10}, WarningThreshold : ThresholdHalves,
   OnBudgetWarning : callbacks, OnBudgetExceeded : callbacks]
\* configs without callbacks, and configs with or without them
PlainConfigs == BudgetConfigs({FALSE})
CallbackConfigs == BudgetConfigs(BOOLEAN)
\* &BudgetConfig{}, NewBudgetTracker's default for a nil config
ZeroConfig ==
  [MaxBudgetUSD |-> 0, WarningThreshold |-> 0,
   OnBudgetWarning |-> FALSE, OnBudgetExceeded |-> FALSE]

NoKey == [has |-> FALSE, v |-> 0]
\* bt.sessionSpent[id]: the zero value for a missing key
SessionValue(m, id) == IF m[id].has THEN m[id].v ELSE 0

\* goroutines calling into one tracker
BtThreads == {1, 2}
\* history: what the goroutine's last CanSpend returned, for which amount and
\* at which total, and what the AddSpend of that amount it called next returned
NoSaw == [amount |-> 0, can |-> FALSE, total |-> 0, add |-> "unseen"]
BtIdle ==
  [pc |-> "idle", op |-> "none", id |-> "", amount |-> 0, cfg |-> ZeroConfig,
   total |-> 0, session |-> 0, cb |-> FALSE, ret |-> "none", saw |-> NoSaw]
NoLedger ==
  [total |-> 0, exact |-> 0, by |-> [s \in SessionIds |-> 0],
   exactBy |-> [s \in SessionIds |-> 0]]

\* a callback goroutine waiting to run: which callback, and its arguments
Callback_MaxFirst(kind, cur, max) == [kind |-> kind, current |-> max, max |-> cur]
Callback(kind, cur, max) == [kind |-> kind, current |-> cur, max |-> max]
SpawnedCount == BagCardinality(spawned)

\* ---------------------------------------------------------------------
\* Permission callbacks and the permission parser
\* ---------------------------------------------------------------------
\* PermissionResult; Allow(), lines 66-68
Result(b, m) == [behavior |-> b, message |-> m]
Allow_Empty == Result("", "")
Allow == Result("allow", "")
EmptyResult == Result("", "")
Behaviors == {"allow", "deny", "ask"}
Messages == {"", "m"}
\* a PermissionCallback, by what it returns; NilFn is the nil callback
NilFn == [nil |-> TRUE, result |-> EmptyResult, err |-> "nil"]
Fn(r, e) == [nil |-> FALSE, result |-> r, err |-> e]
Fns ==
  {NilFn} \cup {Fn(Result(b, m), e) : b \in Behaviors, m \in Messages,
                                      e \in {"nil", "boom"}}
Chains == UNION {[1..n -> Fns] : n \in 0..MaxChain}
NoChain ==
  [callbacks |-> <<>>, pc |-> "none", i |-> 0, invoked |-> <<>>,
   result |-> EmptyResult, err |-> "nil"]

\* what a call of a callback gives: the result, the error, and the functions
\* that ran, in the order in which they ran
NoOutcome == [result |-> EmptyResult, err |-> "nil", invoked |-> <<>>]
NoNested ==
  [a |-> NilFn, b |-> NilFn, c |-> NilFn, pc |-> "none",
   left |-> NoOutcome, right |-> NoOutcome, flat |-> NoOutcome]

\* a permission string is a sequence of characters
Alphabet == {"a", " ", "(", ")", ":"}
Strings == UNION {[1..n -> Alphabet] : n \in 0..MaxLen}
NoPermission ==
  [ok |-> FALSE, err |-> "", Tool |-> <<>>, Command |-> <<>>, Pattern |-> <<>>,
   Original |-> <<>>]
NoParse ==
  [input |-> <<>>, pc |-> "none", out |-> NoPermission, str |-> <<>>,
   again |-> NoPermission]

\* MatchesPattern: the receiver's Pattern, the path, the value returned
NoMatch == [pattern |-> <<>>, path |-> <<>>, pc |-> "none", out |-> FALSE]
\* the callback of FilePathCallback: the two lists, the tool name, the
\* input's FilePath, the result returned
NoScope ==
  [allowedPaths |-> <<>>, deniedPaths |-> <<>>, toolName |-> "", filePath |-> <<>>,
   pc |-> "none", out |-> Result("", <<>>)]

\* --------------------------------------------------------------- Init
\* NewPluginManager, lines 58-62; the budget tracker is not used
Init ==
  /\ plugins = <<>>
  /\ configs = [c \in CfgIds |-> FreshConfig]
  /\ initialized = FALSE
  /\ mu = [w |-> {}, readers |-> {}]
  /\ thr = [t \in Threads |-> Idle]
  /\ regOrder = <<>>
  /\ regCount = [n \in Names |-> 0]
  /\ life = NoLife
  /\ totalSpent = 0
  /\ sessionSpent = [s \in SessionIds |-> NoKey]
  /\ config = ZeroConfig
  /\ warningEmitted = FALSE
  /\ spawned = EmptyBag
  /\ addErr = "none"
  /\ reached = FALSE
  /\ warnings = 0
  /\ btmu = [w |-> {}, readers |-> {}]
  /\ bthr = [t \in BtThreads |-> BtIdle]
  /\ ledger = NoLedger
  /\ chain = NoChain
  /\ parse = NoParse
  /\ match = NoMatch
  /\ scope = NoScope
  /\ nested = NoNested

\* NewPluginManager and NewBudgetTracker(config); the plugin manager is
\* not used
InitBT ==
  /\ plugins = <<>>
  /\ configs = [c \in CfgIds |-> FreshConfig]
  /\ initialized = FALSE
  /\ mu = [w |-> {}, readers |-> {}]
  /\ thr = [t \in Threads |-> Idle]
  /\ regOrder = <<>>
  /\ regCount = [n \in Names |-> 0]
  /\ life = NoLife
  /\ totalSpent = 0
  /\ sessionSpent = [s \in SessionIds |-> NoKey]
  /\ config \in PlainConfigs
  /\ warningEmitted = FALSE
  /\ spawned = EmptyBag
  /\ addErr = "none"
  /\ reached = FALSE
  /\ warnings = 0
  /\ btmu = [w |-> {}, readers |-> {}]
  /\ bthr = [t \in BtThreads |-> BtIdle]
  /\ ledger = NoLedger
  /\ chain = NoChain
  /\ parse = NoParse
  /\ match = NoMatch
  /\ scope = NoScope
  /\ nested = NoNested

\* the same, with a config that may have callbacks
InitCb ==
  /\ plugins = <<>>
  /\ configs = [c \in CfgIds |-> FreshConfig]
  /\ initialized = FALSE
  /\ mu = [w |-> {}, readers |-> {}]
  /\ thr = [t \in Threads |-> Idle]
  /\ regOrder = <<>>
  /\ regCount = [n \in Names |-> 0]
  /\ life = NoLife
  /\ totalSpent = 0
  /\ sessionSpent = [s \in SessionIds |-> NoKey]
  /\ config \in CallbackConfigs
  /\ warningEmitted = FALSE
  /\ spawned = EmptyBag
  /\ addErr = "none"
  /\ reached = FALSE
  /\ warnings = 0
  /\ btmu = [w |-> {}, readers |-> {}]
  /\ bthr = [t \in BtThreads |-> BtIdle]
  /\ ledger = NoLedger
  /\ chain = NoChain
  /\ parse = NoParse
  /\ match = NoMatch
  /\ scope = NoScope
  /\ nested = NoNested

\* line 102: bt.totalSpent > bt.config.MaxBudgetUSD
Exceeds_Never(total, max) == FALSE
Exceeds_AtLeast(total, max) == total >= max
Exceeds(total, max) == total > max
\* line 90: the latch, !bt.warningEmitted
Latched_Never(flag) == FALSE
Latched(flag) == flag

\* AddSpend, lines 86-109, the body under the lock: oldTotal and oldSession
\* are what the two += read
AddSpendFrom_ExceededOnce(id, amount, oldTotal, oldSession) ==
  LET total == FAdd(oldTotal, amount)
      atWarning == /\ config.MaxBudgetUSD > 0 /\ config.WarningThreshold > 0
                   /\ total >= FMulThreshold(config.MaxBudgetUSD,
                                             config.WarningThreshold)
      warn == atWarning /\ ~Latched(warningEmitted)
      over == config.MaxBudgetUSD > 0 /\ Exceeds(total, config.MaxBudgetUSD)
      goWarn == IF warn /\ config.OnBudgetWarning
                THEN SetToBag({Callback("warning", total, config.MaxBudgetUSD)})
                ELSE EmptyBag
      goOver == IF over /\ config.OnBudgetExceeded /\ ~(oldTotal > config.MaxBudgetUSD)
                THEN SetToBag({Callback("exceeded", total, config.MaxBudgetUSD)})
                ELSE EmptyBag
  IN /\ total <= MaxSpend /\ 0 - total <= MaxSpend
     /\ BagCardinality(spawned (+) goWarn (+) goOver) <= MaxSpawned
     /\ totalSpent' = total
     /\ sessionSpent' = [sessionSpent EXCEPT
           ![id] = [has |-> TRUE, v |-> FAdd(oldSession, amount)]]
     /\ warningEmitted' = (warningEmitted \/ warn)
     /\ spawned' = spawned (+) goWarn (+) goOver
     /\ addErr' = IF over THEN "ErrBudgetExceeded" ELSE "nil"
     /\ reached' = (reached \/ atWarning)
     /\ warnings' = warnings + BagCardinality(goWarn)
     /\ UNCHANGED config
AddSpendFrom(id, amount, oldTotal, oldSession) ==
  LET total == FAdd(oldTotal, amount)
      atWarning == /\ config.MaxBudgetUSD > 0 /\ config.WarningThreshold > 0
                   /\ total >= FMulThreshold(config.MaxBudgetUSD,
                                             config.WarningThreshold)
      warn == atWarning /\ ~Latched(warningEmitted)
      over == config.MaxBudgetUSD > 0 /\ Exceeds(total, config.MaxBudgetUSD)
      goWarn == IF warn /\ config.OnBudgetWarning
                THEN SetToBag({Callback("warning", total, config.MaxBudgetUSD)})
                ELSE EmptyBag
      goOver == IF over /\ config.OnBudgetExceeded
                THEN SetToBag({Callback("exceeded", total, config.MaxBudgetUSD)})
                ELSE EmptyBag
  IN /\ total <= MaxSpend /\ 0 - total <= MaxSpend
     /\ BagCardinality(spawned (+) goWarn (+) goOver) <= MaxSpawned
     /\ totalSpent' = total
     /\ sessionSpent' = [sessionSpent EXCEPT
           ![id] = [has |-> TRUE, v |-> FAdd(oldSession, amount)]]
     /\ warningEmitted' = (warningEmitted \/ warn)
     /\ spawned' = spawned (+) goWarn (+) goOver
     /\ addErr' = IF over THEN "ErrBudgetExceeded" ELSE "nil"
     /\ reached' = (reached \/ atWarning)
     /\ warnings' = warnings + BagCardinality(goWarn)
     /\ UNCHANGED config

\* AddSpend, lines 82-110, called with no other goroutine in the tracker
AddSpend(id, amount) ==
  /\ AddSpendFrom(id, amount, totalSpent, SessionValue(sessionSpent, id))
  /\ UNCHANGED btConc
  /\ UNCHANGED <<pmVars, fnVars>>

\* Reset, lines 116-118, the body under the lock
ResetBody ==
  /\ totalSpent' = 0
  /\ sessionSpent' = [s \in SessionIds |-> NoKey]
  /\ warningEmitted' = FALSE
  /\ reached' = FALSE
  /\ warnings' = 0
  /\ UNCHANGED <<config, spawned, addErr>>

\* Reset, lines 113-119
Reset ==
  /\ ResetBody
  /\ UNCHANGED btConc
  /\ UNCHANGED <<pmVars, fnVars>>

\* ResetSession, lines 125-128, the body under the lock
ResetSessionBody_KeepTotal(id) ==
  /\ sessionSpent' = [sessionSpent EXCEPT ![id] = NoKey]
  /\ UNCHANGED <<totalSpent, config, warningEmitted, spawned, addErr, reached,
                 warnings>>
ResetSessionBody(id) ==
  /\ IF sessionSpent[id].has
     THEN /\ totalSpent' = FSub(totalSpent, sessionSpent[id].v)
          /\ sessionSpent' = [sessionSpent EXCEPT ![id] = NoKey]
     ELSE UNCHANGED <<totalSpent, sessionSpent>>
  /\ UNCHANGED <<config, warningEmitted, spawned, addErr, reached, warnings>>

\* ResetSession, lines 122-129
ResetSession(id) ==
  /\ ResetSessionBody(id)
  /\ UNCHANGED btConc
  /\ UNCHANGED <<pmVars, fnVars>>

\* UpdateConfig, lines 140-141, the body under the lock
UpdateConfigBody_KeepLatch(c) ==
  /\ config' = c
  /\ reached' = FALSE
  /\ warnings' = 0
  /\ UNCHANGED <<totalSpent, sessionSpent, warningEmitted, spawned, addErr>>
UpdateConfigBody(c) ==
  /\ config' = c
  /\ warningEmitted' = FALSE
  /\ reached' = FALSE
  /\ warnings' = 0
  /\ UNCHANGED <<totalSpent, sessionSpent, spawned, addErr>>

\* UpdateConfig, lines 137-142
UpdateConfig(c) ==
  /\ UpdateConfigBody(c)
  /\ UNCHANGED btConc
  /\ UNCHANGED <<pmVars, fnVars>>

\* a goroutine started at line 96 or 104 runs its callback
RunCallback ==
  /\ \E cb \in BagToSet(spawned) : spawned' = spawned (-) SetToBag({cb})
  /\ UNCHANGED <<totalSpent, sessionSpent, config, warningEmitted, addErr,
                 reached, warnings>>
  /\ UNCHANGED btConc
  /\ UNCHANGED <<pmVars, fnVars>>

\* the tracker's methods called one after another, no callbacks configured
NextBT ==
  \/ \E id \in SessionIds, amount \in Amounts : AddSpend(id, amount)
  \/ Reset
  \/ \E id \in SessionIds : ResetSession(id)
  \/ \E c \in PlainConfigs : UpdateConfig(c)

SpecBT == InitBT /\ [][NextBT]_vars

\* one session, callbacks configured, their goroutines running when they will
CbSession == "s1"
CbAmounts == {1, 5, 6}
NextCb ==
  \/ \E amount \in CbAmounts :
       /\ totalSpent + amount <= MaxCbSpend
       /\ AddSpend(CbSession, amount)
  \/ Reset
  \/ ResetSession(CbSession)
  \/ \E c \in CallbackConfigs : UpdateConfig(c)
  \/ RunCallback

SpecCb == InitCb /\ [][NextCb]_vars

\* the same tracker with two sessions and amounts that leave the total where
\* it is or take it over the maximum
OverAmounts == {0, 6}
OverConfigs ==
  [MaxBudgetUSD : {0, 10}, WarningThreshold : {0},
   OnBudgetWarning : {FALSE}, OnBudgetExceeded : BOOLEAN]
NextOver ==
  \/ \E id \in SessionIds, amount \in OverAmounts :
       /\ totalSpent + amount <= MaxCbSpend
       /\ AddSpend(id, amount)
  \/ Reset
  \/ \E id \in SessionIds : ResetSession(id)
  \/ \E c \in OverConfigs : UpdateConfig(c)
  \/ RunCallback

SpecOver == InitCb /\ [][NextOver]_vars

\* one session, amounts of either sign, no callbacks configured
SignedAmounts == {-5, 1, 5}
NextSigned ==
  \/ \E amount \in SignedAmounts : AddSpend(CbSession, amount)
  \/ Reset
  \/ ResetSession(CbSession)
  \/ \E c \in PlainConfigs : UpdateConfig(c)

SpecSigned == InitBT /\ [][NextSigned]_vars

\* ------------------------------------------- the tracker, concurrent callers
BtWriteOps == {"AddSpend", "Reset", "ResetSession", "UpdateConfig"}
\* methods that read bt.config before, or without, taking the lock
BtUnlockedOps == {"RemainingBudget", "CanSpend", "Config"}
\* which half of bt.mu each method takes
BtLockKind_AddSpendRLock(op) ==
  IF op \in BtWriteOps \ {"AddSpend"} THEN "Lock" ELSE "RLock"
BtLockKind(op) == IF op \in BtWriteOps THEN "Lock" ELSE "RLock"
BtFirstPc(op) == IF op \in BtUnlockedOps THEN "cfgread" ELSE BtLockKind(op)

BtRet(e, v) == [e |-> e, v |-> v]
\* AddSpend calls that have been made and have not stored yet, and those of
\* them that have not held the lock yet
AddCalls == {t \in BtThreads : bthr[t].op = "AddSpend" /\ bthr[t].pc \notin {"idle", "ret"}}
Waiting == {t \in AddCalls : bthr[t].pc \notin {"load", "store"}}
RECURSIVE InFlight(_)
InFlight(ts) ==
  IF ts = {} THEN 0
  ELSE LET t == CHOOSE x \in ts : TRUE IN bthr[t].amount + InFlight(ts \ {t})
CbCount(c) ==
  (IF c.OnBudgetWarning THEN 1 ELSE 0) + (IF c.OnBudgetExceeded THEN 1 ELSE 0)
\* the model's bounds leave room for one more AddSpend(amount)
Room(amount) ==
  /\ ledger.exact + InFlight(Waiting) + amount <= MaxSpend
  /\ SpawnedCount + (Cardinality(AddCalls) + 1) * CbCount(config) <= MaxSpawned

BtEnter(t, op, id, amount, c, cb) ==
  bthr' = [bthr EXCEPT ![t] = [BtIdle EXCEPT !.pc = BtFirstPc(op), !.op = op,
                                  !.id = id, !.amount = amount, !.cfg = c,
                                  !.cb = cb, !.saw = bthr[t].saw]]

\* goroutine t enters one of the methods ops with arguments from ids,
\* amounts and cfgs
BtStart(t, ops, ids, amounts, cfgs, cb) ==
  \E op \in ops :
    CASE op = "AddSpend" ->
           \E id \in ids, a \in amounts : Room(a) /\ BtEnter(t, op, id, a, ZeroConfig, cb)
      [] op = "CanSpend" ->
           \E a \in amounts : BtEnter(t, op, "", a, ZeroConfig, cb)
      [] op \in {"ResetSession", "SessionSpent"} ->
           \E id \in ids : BtEnter(t, op, id, 0, ZeroConfig, cb)
      [] op = "UpdateConfig" ->
           \E c \in cfgs : BtEnter(t, op, "", 0, c, cb)
      [] OTHER -> BtEnter(t, op, "", 0, ZeroConfig, cb)

\* a caller's goroutine calls a method
BtCall(t, ops, ids, amounts, cfgs) ==
  /\ bthr[t].pc = "idle"
  /\ BtStart(t, ops, ids, amounts, cfgs, FALSE)
  /\ UNCHANGED <<btData, btmu, ledger>>
  /\ UNCHANGED <<pmVars, fnVars>>

\* a goroutine started at line 96 or 104 runs: the callback calls back into
\* the tracker
BtRunCallback(t, ops, ids, amounts) ==
  /\ bthr[t].pc = "idle"
  /\ \E cb \in BagToSet(spawned) : spawned' = spawned (-) SetToBag({cb})
  /\ BtStart(t, ops, ids, amounts, {}, TRUE)
  /\ UNCHANGED <<totalSpent, sessionSpent, config, warningEmitted, addErr,
                 reached, warnings, btmu, ledger>>
  /\ UNCHANGED <<pmVars, fnVars>>

\* RemainingBudget line 59, CanSpend line 73, Config line 133: bt.config is
\* read with no lock held
BtCfgRead(t) ==
  /\ bthr[t].pc = "cfgread"
  /\ bthr' = [bthr EXCEPT ![t] =
       CASE bthr[t].op = "Config" -> [@ EXCEPT !.pc = "ret", !.ret = BtRet("config", 0)]
         [] bthr[t].op = "RemainingBudget" /\ config.MaxBudgetUSD <= 0 ->
              [@ EXCEPT !.pc = "ret", !.ret = BtRet("value", -1)]
         [] bthr[t].op = "CanSpend" /\ config.MaxBudgetUSD <= 0 ->
              [@ EXCEPT !.pc = "ret", !.ret = BtRet("true", 0)]
         [] OTHER -> [@ EXCEPT !.pc = "RLock"]]
  /\ UNCHANGED <<btData, btmu, ledger>>
  /\ UNCHANGED <<pmVars, fnVars>>

\* history: what the calls that have held the lock so far add up to, each
\* sum rounded as float64 rounds it, and the same sums exactly
Booked(t) ==
  LET id == bthr[t].id
      a == bthr[t].amount
  IN CASE bthr[t].op = "AddSpend" ->
            [total |-> FAdd(ledger.total, a), exact |-> ledger.exact + a,
             by |-> [ledger.by EXCEPT ![id] = FAdd(@, a)],
             exactBy |-> [ledger.exactBy EXCEPT ![id] = @ + a]]
       [] bthr[t].op = "Reset" -> NoLedger
       [] bthr[t].op = "ResetSession" ->
            [total |-> FSub(ledger.total, ledger.by[id]),
             exact |-> ledger.exact - ledger.exactBy[id],
             by |-> [ledger.by EXCEPT ![id] = 0],
             exactBy |-> [ledger.exactBy EXCEPT ![id] = 0]]
       [] OTHER -> ledger
BtLocked(t) == IF bthr[t].op = "AddSpend" THEN "load" ELSE "crit"

\* bt.mu.Lock, first half
BtLockAnnounce(t) ==
  /\ bthr[t].pc = "Lock"
  /\ btmu.w = {}
  /\ btmu' = [btmu EXCEPT !.w = {t}]
  /\ bthr' = [bthr EXCEPT ![t].pc = "LockWait"]
  /\ UNCHANGED <<btData, ledger>>
  /\ UNCHANGED <<pmVars, fnVars>>

\* bt.mu.Lock, second half
BtLockAcquire(t) ==
  /\ bthr[t].pc = "LockWait"
  /\ btmu.readers = {}
  /\ bthr' = [bthr EXCEPT ![t].pc = BtLocked(t)]
  /\ ledger' = Booked(t)
  /\ UNCHANGED <<btData, btmu>>
  /\ UNCHANGED <<pmVars, fnVars>>

\* bt.mu.RLock
BtRLock(t) ==
  /\ bthr[t].pc = "RLock"
  /\ btmu.w = {}
  /\ btmu' = [btmu EXCEPT !.readers = @ \cup {t}]
  /\ bthr' = [bthr EXCEPT ![t].pc = BtLocked(t)]
  /\ ledger' = Booked(t)
  /\ UNCHANGED btData
  /\ UNCHANGED <<pmVars, fnVars>>

\* AddSpend, lines 86-87: the two += read their operands
BtLoad(t) ==
  /\ bthr[t].pc = "load"
  /\ bthr' = [bthr EXCEPT ![t].pc = "store", ![t].total = totalSpent,
                          ![t].session = SessionValue(sessionSpent, bthr[t].id)]
  /\ UNCHANGED <<btData, btmu, ledger>>
  /\ UNCHANGED <<pmVars, fnVars>>

\* AddSpend, lines 86-109: the sums are stored, the thresholds checked
BtStore(t) ==
  /\ bthr[t].pc = "store"
  /\ AddSpendFrom(bthr[t].id, bthr[t].amount, bthr[t].total, bthr[t].session)
  /\ bthr' = [bthr EXCEPT ![t].pc = "ret", ![t].ret = BtRet(addErr', 0)]
  /\ UNCHANGED <<btmu, ledger>>
  /\ UNCHANGED <<pmVars, fnVars>>

\* RemainingBudget, lines 64-68
Remaining_Signed(max, total) == FSub(max, total)
Remaining(max, total) ==
  IF FSub(max, total) < 0 THEN 0 ELSE FSub(max, total)
\* CanSpend, line 78
Within_Below(total, amount, max) == FAdd(total, amount) < max
Within(total, amount, max) == FAdd(total, amount) <= max

\* the bodies of the other methods, under the lock
BtCrit(t) ==
  /\ bthr[t].pc = "crit"
  /\ CASE bthr[t].op = "Reset" -> ResetBody
       [] bthr[t].op = "ResetSession" -> ResetSessionBody(bthr[t].id)
       [] bthr[t].op = "UpdateConfig" -> UpdateConfigBody(bthr[t].cfg)
       [] OTHER -> UNCHANGED btData
  /\ bthr' = [bthr EXCEPT ![t].pc = "ret", ![t].ret =
       CASE bthr[t].op = "TotalSpent" -> BtRet("value", totalSpent)
         [] bthr[t].op = "SessionSpent" ->
              BtRet("value", SessionValue(sessionSpent, bthr[t].id))
         [] bthr[t].op = "RemainingBudget" ->
              BtRet("value", Remaining(config.MaxBudgetUSD, totalSpent))
         [] bthr[t].op = "CanSpend" ->
              BtRet(IF Within(totalSpent, bthr[t].amount, config.MaxBudgetUSD)
                    THEN "true" ELSE "false", 0)
         [] OTHER -> BtRet("done", 0)]
  /\ UNCHANGED <<btmu, ledger>>
  /\ UNCHANGED <<pmVars, fnVars>>

\* line 96, line 104: "go" starts the callback and AddSpend goes on
MayReturn_AfterCallbacks(t) ==
  bthr[t].op = "AddSpend" =>
    (spawned = EmptyBag /\ \A u \in BtThreads \ {t} : ~bthr[u].cb)
MayReturn(t) == TRUE

\* the method returns: the deferred Unlock / RUnlock runs
BtReturn(t) ==
  /\ bthr[t].pc = "ret"
  /\ MayReturn(t)
  /\ btmu' = [w |-> btmu.w \ {t}, readers |-> btmu.readers \ {t}]
  /\ bthr' = [bthr EXCEPT ![t] = BtIdle]
  /\ UNCHANGED <<btData, ledger>>
  /\ UNCHANGED <<pmVars, fnVars>>

\* the same return, with the history of the goroutine's CanSpend kept
Seen(t) ==
  CASE bthr[t].op = "CanSpend" ->
         [amount |-> bthr[t].amount, can |-> (bthr[t].ret.e = "true"),
          total |-> totalSpent, add |-> "none"]
    [] bthr[t].op = "AddSpend" /\ bthr[t].saw.add = "none"
                               /\ bthr[t].saw.amount = bthr[t].amount ->
         [bthr[t].saw EXCEPT !.add = bthr[t].ret.e]
    [] OTHER -> NoSaw
BtReturnSeen(t) ==
  /\ bthr[t].pc = "ret"
  /\ MayReturn(t)
  /\ btmu' = [w |-> btmu.w \ {t}, readers |-> btmu.readers \ {t}]
  /\ bthr' = [bthr EXCEPT ![t] = [BtIdle EXCEPT !.saw = Seen(t)]]
  /\ UNCHANGED <<btData, ledger>>
  /\ UNCHANGED <<pmVars, fnVars>>

\* goroutine t goes on in the method it is in
BtStep(t) ==
  \/ BtCfgRead(t)
  \/ BtLockAnnounce(t)
  \/ BtLockAcquire(t)
  \/ BtRLock(t)
  \/ BtLoad(t)
  \/ BtStore(t)
  \/ BtCrit(t)
  \/ BtReturn(t)

\* goroutines that call AddSpend and TotalSpent concurrently
AddAmounts == {1, 5, 12}
NextAdd ==
  \E t \in BtThreads :
    \/ BtCall(t, {"AddSpend", "TotalSpent"}, SessionIds, AddAmounts, {})
    \/ BtLockAnnounce(t)
    \/ BtLockAcquire(t)
    \/ BtRLock(t)
    \/ BtLoad(t)
    \/ BtStore(t)
    \/ BtCrit(t)
    \/ BtReturn(t)

SpecAdd == InitBT /\ [][NextAdd]_vars

\* goroutines that call any of the tracker's methods concurrently, one
\* session, no callbacks configured
BtOps ==
  BtWriteOps \cup BtUnlockedOps \cup {"TotalSpent", "SessionSpent"}
NextRace ==
  \E t \in BtThreads :
    \/ BtCall(t, BtOps, {CbSession}, CbAmounts, PlainConfigs)
    \/ BtCfgRead(t)
    \/ BtLockAnnounce(t)
    \/ BtLockAcquire(t)
    \/ BtRLock(t)
    \/ BtLoad(t)
    \/ BtStore(t)
    \/ BtCrit(t)
    \/ BtReturn(t)

SpecRace == InitBT /\ [][NextRace]_vars

\* one goroutine calls AddSpend and Reset, another runs the callbacks that
\* AddSpend starts; a callback calls back into the tracker
Runner == CHOOSE t \in BtThreads : t # Main
CallbackOps == {"TotalSpent", "RemainingBudget", "ResetSession", "AddSpend"}
\* amounts that reach the warning amount; two of them exceed the budget
CallAmounts == {5, 6}
NextCall ==
  \/ BtCall(Main, {"AddSpend", "Reset"}, {CbSession}, CallAmounts, {})
  \/ BtRunCallback(Runner, CallbackOps, {CbSession}, CallAmounts)
  \/ \E t \in BtThreads : BtStep(t)

\* the scheduler runs every goroutine that can run, and sync.RWMutex hands
\* the lock to a goroutine that waits for it (its starvation mode)
FairCall ==
  /\ WF_vars(BtRunCallback(Runner, CallbackOps, {CbSession}, CallAmounts))
  /\ \A t \in BtThreads : SF_vars(BtStep(t))

\* a tracker whose config has a budget and a warning amount
InitCall ==
  /\ InitCb
  /\ config.MaxBudgetUSD > 0
  /\ config.WarningThreshold > 0

SpecCall == InitCall /\ [][NextCall]_vars /\ FairCall

\* one goroutine calls the tracker's methods one after another: two
\* sessions, a maximum that is negative, zero or positive, no callbacks
SeqAmounts == {5, 6}
SeqConfigs ==
  [MaxBudgetUSD : {-5, 0, 10}, WarningThreshold : ThresholdHalves,
   OnBudgetWarning : {FALSE}, OnBudgetExceeded : {FALSE}]
NextSeq ==
  \/ BtCall(Main, BtOps, SessionIds, SeqAmounts, SeqConfigs)
  \/ BtStep(Main)

SpecSeq == InitBT /\ [][NextSeq]_vars

\* goroutines that ask CanSpend and call AddSpend, concurrently, until the
\* amounts add up to more than MaxCbSpend
NextCheck ==
  \E t \in BtThreads :
    \/ /\ ledger.exact <= MaxCbSpend
       /\ BtCall(t, {"CanSpend", "AddSpend"}, {CbSession}, SeqAmounts, {})
    \/ BtCfgRead(t)
    \/ BtLockAnnounce(t)
    \/ BtLockAcquire(t)
    \/ BtRLock(t)
    \/ BtLoad(t)
    \/ BtStore(t)
    \/ BtCrit(t)
    \/ BtReturnSeen(t)

SpecCheck == InitBT /\ [][NextCheck]_vars



\* ------------------------------------------------------------ actions
\* a goroutine enters a method of the manager
Enter(t, op, p, e) ==
  thr' = [thr EXCEPT ![t] = [Idle EXCEPT !.pc = LockKind(op), !.op = op,
                                         !.plugin = p, !.enabled = e]]

\* history: the registry as a method finds it when it has the lock
Snapshot == [plugins |-> plugins, configs |-> configs, initialized |-> initialized]

\* Register, lines 67-72: the argument checks, before the lock is taken
ArgError_NoEmptyCheck(p) ==
  IF p = NilPlugin THEN Err("plugin cannot be nil", "") ELSE NoErr
ArgError(p) ==
  IF p = NilPlugin THEN Err("plugin cannot be nil", "")
  ELSE IF p = EmptyName THEN Err("plugin name cannot be empty", "")
  ELSE NoErr

CallRegister(t) ==
  /\ UNCHANGED <<btVars, fnVars, life>>
  /\ thr[t].pc = "idle"
  /\ \E p \in Names \cup {NilPlugin, EmptyName} :
       IF ArgError(p) # NoErr
       THEN thr' = [thr EXCEPT ![t] = [Idle EXCEPT !.pc = "ret", !.op = "Register",
                                          !.plugin = p, !.err = ArgError(p)]]
       ELSE Enter(t, "Register", p, FALSE)
  /\ UNCHANGED <<plugins, configs, initialized, mu, regOrder, regCount>>

CallNamed(t) ==
  /\ UNCHANGED <<btVars, fnVars, life>>
  /\ thr[t].pc = "idle"
  /\ \E n \in Names :
       \/ Enter(t, "Unregister", n, FALSE)
       \/ \E e \in BOOLEAN : Enter(t, "SetEnabled", n, e)
       \/ Enter(t, "Get", n, FALSE)
  /\ UNCHANGED <<plugins, configs, initialized, mu, regOrder, regCount>>

CallPlain(t) ==
  /\ UNCHANGED <<btVars, fnVars, life>>
  /\ thr[t].pc = "idle"
  /\ \E op \in {"Initialize", "Shutdown", "List", "Count"} \cup DispatchOps :
       Enter(t, op, NilPlugin, FALSE)
  /\ UNCHANGED <<plugins, configs, initialized, mu, regOrder, regCount>>

\* where each method's loop starts
LoopStart(op) == IF op = "Shutdown" THEN Len(plugins) ELSE 1

\* sync.RWMutex.Lock, first half: take the writers' mutex and announce the
\* writer, which stops new readers
LockAnnounce(t) ==
  /\ UNCHANGED <<btVars, fnVars, life>>
  /\ thr[t].pc = "Lock"
  /\ mu.w = {}
  /\ mu' = [mu EXCEPT !.w = {t}]
  /\ thr' = [thr EXCEPT ![t].pc = "LockWait"]
  /\ UNCHANGED <<plugins, configs, initialized, regOrder, regCount>>

\* sync.RWMutex.Lock, second half: wait for the active readers to leave
LockAcquire(t) ==
  /\ UNCHANGED <<btVars, fnVars, life>>
  /\ thr[t].pc = "LockWait"
  /\ mu.readers = {}
  /\ thr' = [thr EXCEPT ![t].pc = "crit", ![t].i = LoopStart(thr[t].op),
                        ![t].pre = Snapshot]
  /\ UNCHANGED <<plugins, configs, initialized, mu, regOrder, regCount>>

\* sync.RWMutex.RLock: blocks while a writer holds or has announced
RLock(t) ==
  /\ UNCHANGED <<btVars, fnVars, life>>
  /\ thr[t].pc = "RLock"
  /\ mu.w = {}
  /\ mu' = [mu EXCEPT !.readers = @ \cup {t}]
  /\ thr' = [thr EXCEPT ![t].pc = "crit", ![t].i = LoopStart(thr[t].op),
                        ![t].pre = Snapshot]
  /\ UNCHANGED <<plugins, configs, initialized, regOrder, regCount>>

\* Register, lines 77-82: the duplicate check
IsRegistered_Never(ps, n) == FALSE
IsRegistered(ps, n) == \E k \in 1..Len(ps) : ps[k].plugin = n

RegisterCheck(t) ==
  /\ UNCHANGED <<btVars, fnVars, life>>
  /\ thr[t].pc = "crit" /\ thr[t].op = "Register"
  /\ thr' = [thr EXCEPT
       ![t].pc = IF IsRegistered(plugins, thr[t].plugin) THEN "ret" ELSE "insert",
       ![t].err = IF IsRegistered(plugins, thr[t].plugin)
                  THEN Err("already registered", thr[t].plugin) ELSE NoErr]
  /\ UNCHANGED <<plugins, configs, initialized, mu, regOrder, regCount>>

\* lines 105-111: the first entry whose priority is greater; Len+1 appends
InsertPos_BeforeEqual(ps, priority) ==
  IF \E k \in 1..Len(ps) : priority <= ps[k].priority
  THEN Min({k \in 1..Len(ps) : priority <= ps[k].priority})
  ELSE Len(ps) + 1
InsertPos(ps, priority) ==
  IF \E k \in 1..Len(ps) : priority < ps[k].priority
  THEN Min({k \in 1..Len(ps) : priority < ps[k].priority})
  ELSE Len(ps) + 1

\* priority := config.Priority; if priority == 0 { priority = 100 }
EffectivePriority(p) == IF p = 0 THEN DefaultPriority ELSE p

\* Register, lines 84-116: default config, priority, ordered insertion. The
\* config argument is drawn here, where the method first reads it.
RegisterInsert(t, cfgArgs) ==
  /\ UNCHANGED <<btVars, fnVars, life>>
  /\ thr[t].pc = "insert" /\ thr[t].op = "Register"
  /\ \E a \in cfgArgs :
       LET id == IF a.kind = "ptr" THEN a.id ELSE FreshId(thr[t].plugin, plugins)
           cf == CASE a.kind = "nil" -> [Enabled |-> TRUE, Priority |-> DefaultPriority]
                   [] a.kind = "new" -> [Enabled |-> a.Enabled, Priority |-> a.Priority]
                   [] OTHER -> configs[a.id]
           priority == EffectivePriority(cf.Priority)
           entry == [plugin |-> thr[t].plugin, config |-> id, priority |-> priority]
           nps == InsertAt(plugins, InsertPos(plugins, priority), entry)
       IN /\ plugins' = nps
          /\ configs' = Collect([configs EXCEPT ![id] = cf], nps)
          /\ thr' = [thr EXCEPT ![t].pc = "ret", ![t].err = NoErr]
          /\ regOrder' = Append(regOrder, thr[t].plugin)
          /\ regCount' = [regCount EXCEPT ![thr[t].plugin] = @ + 1]
  /\ UNCHANGED <<initialized, mu>>

\* Unregister, lines 120-132
Unregister(t) ==
  /\ UNCHANGED <<btVars, fnVars, life>>
  /\ thr[t].pc = "crit" /\ thr[t].op = "Unregister"
  /\ LET n == thr[t].plugin
         hit == Positions(plugins, n)
     IN IF hit # {}
        THEN LET nps == RemoveAt(plugins, Min(hit))
             IN /\ plugins' = nps
                /\ configs' = Collect(configs, nps)
                /\ thr' = [thr EXCEPT ![t].pc = "ret", ![t].err = NoErr]
                /\ regOrder' = SelectSeq(regOrder, LAMBDA x : x # n)
                /\ regCount' = [regCount EXCEPT ![n] = 0]
        ELSE /\ thr' = [thr EXCEPT ![t].pc = "ret", ![t].err = Err("not found", n)]
             /\ UNCHANGED <<plugins, configs, regOrder, regCount>>
  /\ UNCHANGED <<initialized, mu>>

\* SetEnabled, lines 259-274
SetEnabled_Inverted(t) ==
  /\ UNCHANGED <<btVars, fnVars, life>>
  /\ thr[t].pc = "crit" /\ thr[t].op = "SetEnabled"
  /\ LET n == thr[t].plugin
         hit == Positions(plugins, n)
     IN IF hit # {}
        THEN LET k == Min(hit)
             IN IF plugins[k].config = NilCfg
                THEN LET id == FreshId(n, plugins)
                     IN /\ plugins' = [plugins EXCEPT ![k].config = id]
                        /\ configs' = [configs EXCEPT ![id] =
                               [Enabled |-> ~thr[t].enabled, Priority |-> DefaultPriority]]
                        /\ thr' = [thr EXCEPT ![t].pc = "ret", ![t].err = NoErr]
                ELSE /\ configs' = [configs EXCEPT ![plugins[k].config].Enabled =
                                                      ~thr[t].enabled]
                     /\ thr' = [thr EXCEPT ![t].pc = "ret", ![t].err = NoErr]
                     /\ UNCHANGED plugins
        ELSE /\ thr' = [thr EXCEPT ![t].pc = "ret", ![t].err = Err("not found", n)]
             /\ UNCHANGED <<plugins, configs>>
  /\ UNCHANGED <<initialized, mu, regOrder, regCount>>
SetEnabled(t) ==
  /\ UNCHANGED <<btVars, fnVars, life>>
  /\ thr[t].pc = "crit" /\ thr[t].op = "SetEnabled"
  /\ LET n == thr[t].plugin
         hit == Positions(plugins, n)
     IN IF hit # {}
        THEN LET k == Min(hit)
             IN IF plugins[k].config = NilCfg
                THEN LET id == FreshId(n, plugins)
                     IN /\ plugins' = [plugins EXCEPT ![k].config = id]
                        /\ configs' = [configs EXCEPT ![id] =
                               [Enabled |-> thr[t].enabled, Priority |-> DefaultPriority]]
                        /\ thr' = [thr EXCEPT ![t].pc = "ret", ![t].err = NoErr]
                ELSE /\ configs' = [configs EXCEPT ![plugins[k].config].Enabled =
                                                      thr[t].enabled]
                     /\ thr' = [thr EXCEPT ![t].pc = "ret", ![t].err = NoErr]
                     /\ UNCHANGED plugins
        ELSE /\ thr' = [thr EXCEPT ![t].pc = "ret", ![t].err = Err("not found", n)]
             /\ UNCHANGED <<plugins, configs>>
  /\ UNCHANGED <<initialized, mu, regOrder, regCount>>

\* what a plugin's hook returns: nil or an error of the plugin's own
HookResults == {"nil", HookErr}
Called(p, r) == [plugin |-> p, res |-> r]

\* Initialize, line 139: if pm.initialized { return nil }
AlreadyInitialized_Never(flag) == FALSE
AlreadyInitialized(flag) == flag

\* Initialize, lines 146-148: a hook's error ends the loop, the method returns
InitializeAfter_Continue(r) == "crit"
InitializeAfter(r) == IF r = "nil" THEN "crit" ELSE "ret"

\* Initialize, lines 135-154
Initialize(t) ==
  /\ UNCHANGED <<btVars, fnVars, life>>
  /\ thr[t].pc = "crit" /\ thr[t].op = "Initialize"
  /\ LET k == thr[t].i
     IN IF k = 1 /\ AlreadyInitialized(initialized)
        THEN /\ thr' = [thr EXCEPT ![t].pc = "ret", ![t].err = NoErr]
             /\ UNCHANGED initialized
        ELSE IF k > Len(plugins)
        THEN /\ initialized' = TRUE
             /\ thr' = [thr EXCEPT ![t].pc = "ret", ![t].err = NoErr]
        ELSE IF Disabled(configs, plugins[k])
        THEN /\ thr' = [thr EXCEPT ![t].i = k + 1]
             /\ UNCHANGED initialized
        ELSE /\ \E r \in HookResults :
                  thr' = [thr EXCEPT
                     ![t].calls = Append(@, Called(plugins[k].plugin, r)),
                     ![t].i = k + 1,
                     ![t].pc = InitializeAfter(r),
                     ![t].err = IF r = "nil" THEN NoErr
                                ELSE Wrap("failed to initialize plugin",
                                          plugins[k].plugin, r)]
             /\ UNCHANGED initialized
  /\ UNCHANGED <<plugins, configs, mu, regOrder, regCount>>

DispatchMsg(op) ==
  CASE op = "OnToolCall" -> "rejected tool call"
    [] op = "OnMessage" -> "error on message"
    [] OTHER -> "error on complete"

\* lines 166-168: a hook's error ends the loop, the method returns
AfterHook_Continue(r) == "crit"
AfterHook(r) == IF r = "nil" THEN "crit" ELSE "ret"

\* the loop shared by OnToolCall, OnMessage and OnComplete
Dispatch(t, op) ==
  /\ UNCHANGED <<btVars, fnVars, life>>
  /\ thr[t].pc = "crit" /\ thr[t].op = op
  /\ LET k == thr[t].i
     IN IF k > Len(plugins)
        THEN thr' = [thr EXCEPT ![t].pc = "ret", ![t].err = NoErr]
        ELSE IF Disabled(configs, plugins[k])
        THEN thr' = [thr EXCEPT ![t].i = k + 1]
        ELSE \E r \in HookResults :
               thr' = [thr EXCEPT
                  ![t].calls = Append(@, Called(plugins[k].plugin, r)),
                  ![t].i = k + 1,
                  ![t].pc = AfterHook(r),
                  ![t].err = IF r = "nil" THEN NoErr
                             ELSE Wrap(DispatchMsg(op), plugins[k].plugin, r)]
  /\ UNCHANGED <<plugins, configs, initialized, mu, regOrder, regCount>>

\* OnToolCall, lines 158-172
OnToolCall(t) == Dispatch(t, "OnToolCall")
\* OnMessage, lines 175-189
OnMessage(t) == Dispatch(t, "OnMessage")
\* OnComplete, lines 192-206
OnComplete(t) == Dispatch(t, "OnComplete")

\* Shutdown, line 216: entry := pm.plugins[i]
ShutdownEntry_Forward(ps, k) == ps[Len(ps) - k + 1]
ShutdownEntry(ps, k) == ps[k]

\* Shutdown, lines 217-219: a failure overwrites lastErr
LastErr_KeepFirst(old, new) == IF old = NoErr THEN new ELSE old
LastErr(old, new) == new

\* Shutdown, line 222: pm.initialized = false, whatever lastErr is
ShutdownFlag_KeepOnError(lastErr, flag) == IF lastErr = NoErr THEN FALSE ELSE flag
ShutdownFlag(lastErr, flag) == FALSE

\* Shutdown, lines 209-224; thr[t].err is lastErr
Shutdown(t) ==
  /\ UNCHANGED <<btVars, fnVars, life>>
  /\ thr[t].pc = "crit" /\ thr[t].op = "Shutdown"
  /\ LET k == thr[t].i
     IN IF k < 1
        THEN /\ initialized' = ShutdownFlag(thr[t].err, initialized)
             /\ thr' = [thr EXCEPT ![t].pc = "ret"]
        ELSE /\ \E r \in HookResults :
                  LET p == ShutdownEntry(plugins, k).plugin
                  IN thr' = [thr EXCEPT
                       ![t].calls = Append(@, Called(p, r)),
                       ![t].i = k - 1,
                       ![t].err = IF r = "nil" THEN @
                                  ELSE LastErr(@, Wrap("failed to shutdown plugin", p, r))]
             /\ UNCHANGED initialized
  /\ UNCHANGED <<plugins, configs, mu, regOrder, regCount>>

\* List, lines 227-236
List(t) ==
  /\ UNCHANGED <<btVars, fnVars, life>>
  /\ thr[t].pc = "crit" /\ thr[t].op = "List"
  /\ thr' = [thr EXCEPT ![t].pc = "ret", ![t].val = NameList(plugins)]
  /\ UNCHANGED <<plugins, configs, initialized, mu, regOrder, regCount>>

\* Get, lines 239-249
Get(t) ==
  /\ UNCHANGED <<btVars, fnVars, life>>
  /\ thr[t].pc = "crit" /\ thr[t].op = "Get"
  /\ thr' = [thr EXCEPT ![t].pc = "ret",
                        ![t].val = IF Positions(plugins, thr[t].plugin) # {}
                                   THEN <<thr[t].plugin>> ELSE <<>>]
  /\ UNCHANGED <<plugins, configs, initialized, mu, regOrder, regCount>>

\* Count, lines 252-256
Count(t) ==
  /\ UNCHANGED <<btVars, fnVars, life>>
  /\ thr[t].pc = "crit" /\ thr[t].op = "Count"
  /\ thr' = [thr EXCEPT ![t].pc = "ret", ![t].val = <<Len(plugins)>>]
  /\ UNCHANGED <<plugins, configs, initialized, mu, regOrder, regCount>>

\* the method returns: the deferred Unlock / RUnlock runs
Unlocked(t) ==
  /\ UNCHANGED <<btVars, fnVars>>
  /\ thr[t].pc = "ret"
  /\ mu' = [w |-> mu.w \ {t}, readers |-> mu.readers \ {t}]
  /\ thr' = [thr EXCEPT ![t] = Idle]
  /\ UNCHANGED <<plugins, configs, initialized, regOrder, regCount>>
Return(t) ==
  /\ Unlocked(t)
  /\ UNCHANGED life

\* history: what the Initialize or Shutdown call that returns found in
\* pm.initialized, whether it returns an error, and the plugins whose hook
\* returned nil in it
Outcome(t) ==
  IF thr[t].op \in {"Initialize", "Shutdown"}
  THEN [op |-> thr[t].op, was |-> thr[t].pre.initialized,
        failed |-> (thr[t].err # NoErr),
        done |-> [k \in 1..Len(SelectSeq(thr[t].calls, LAMBDA c : c.res = "nil")) |->
                    SelectSeq(thr[t].calls, LAMBDA c : c.res = "nil")[k].plugin]]
  ELSE life
\* the same return, with the history kept
ReturnKept(t) ==
  /\ Unlocked(t)
  /\ life' = Outcome(t)

\* one goroutine calls the manager's methods one after another; Register
\* takes any config
Next ==
  \/ CallRegister(Main)
  \/ CallNamed(Main)
  \/ CallPlain(Main)
  \/ LockAnnounce(Main)
  \/ LockAcquire(Main)
  \/ RLock(Main)
  \/ RegisterCheck(Main)
  \/ RegisterInsert(Main, AnyCfgArgs(plugins))
  \/ Unregister(Main)
  \/ SetEnabled(Main)
  \/ Initialize(Main)
  \/ OnToolCall(Main)
  \/ OnMessage(Main)
  \/ OnComplete(Main)
  \/ Shutdown(Main)
  \/ List(Main)
  \/ Get(Main)
  \/ Count(Main)
  \/ Return(Main)

Spec == Init /\ [][Next]_vars

\* one goroutine registers plugins, enables and disables them and calls
\* Initialize and Shutdown, in any order
CallSetEnabled(t) ==
  /\ UNCHANGED <<btVars, fnVars, life>>
  /\ thr[t].pc = "idle"
  /\ \E n \in Names, e \in BOOLEAN : Enter(t, "SetEnabled", n, e)
  /\ UNCHANGED <<plugins, configs, initialized, mu, regOrder, regCount>>
CallLife(t) ==
  /\ UNCHANGED <<btVars, fnVars, life>>
  /\ thr[t].pc = "idle"
  /\ \E op \in {"Initialize", "Shutdown"} : Enter(t, op, NilPlugin, FALSE)
  /\ UNCHANGED <<plugins, configs, initialized, mu, regOrder, regCount>>
NextLife ==
  \/ CallRegister(Main)
  \/ CallSetEnabled(Main)
  \/ CallLife(Main)
  \/ LockAnnounce(Main)
  \/ LockAcquire(Main)
  \/ RegisterCheck(Main)
  \/ RegisterInsert(Main, NilCfgArgs(plugins))
  \/ SetEnabled(Main)
  \/ Initialize(Main)
  \/ Shutdown(Main)
  \/ ReturnKept(Main)

SpecLife == Init /\ [][NextLife]_vars

\* the goroutines call the manager's methods concurrently; Register is
\* called without a config
NextConc ==
  \E t \in Threads :
    \/ CallRegister(t)
    \/ CallNamed(t)
    \/ CallPlain(t)
    \/ LockAnnounce(t)
    \/ LockAcquire(t)
    \/ RLock(t)
    \/ RegisterCheck(t)
    \/ RegisterInsert(t, NilCfgArgs(plugins))
    \/ Unregister(t)
    \/ SetEnabled(t)
    \/ Initialize(t)
    \/ OnToolCall(t)
    \/ OnMessage(t)
    \/ OnComplete(t)
    \/ Shutdown(t)
    \/ List(t)
    \/ Get(t)
    \/ Count(t)
    \/ Return(t)

SpecConc == Init /\ [][NextConc]_vars

\* history: the plugins whose Initialize hook was invoked since the last
\* Shutdown returned
Since(t) ==
  CASE thr[t].op = "Shutdown" -> [NoLife EXCEPT !.op = "Shutdown"]
    [] thr[t].op = "Initialize" ->
         [life EXCEPT !.op = "Initialize",
                      !.done = @ \o SelectSeq([k \in 1..Len(thr[t].calls) |-> thr[t].calls[k].plugin],
                                    LAMBDA n : \A k \in 1..Len(life.done) : life.done[k] # n)]
    [] OTHER -> life
ReturnSince(t) ==
  /\ Unlocked(t)
  /\ life' = Since(t)

\* one goroutine registers plugins, enables and disables them, calls
\* Initialize and Shutdown and dispatches events, in any order
NextEvents ==
  \/ CallRegister(Main)
  \/ CallSetEnabled(Main)
  \/ CallPlain(Main)
  \/ LockAnnounce(Main)
  \/ LockAcquire(Main)
  \/ RLock(Main)
  \/ RegisterCheck(Main)
  \/ RegisterInsert(Main, NilCfgArgs(plugins))
  \/ SetEnabled(Main)
  \/ Initialize(Main)
  \/ OnToolCall(Main)
  \/ OnMessage(Main)
  \/ OnComplete(Main)
  \/ Shutdown(Main)
  \/ List(Main)
  \/ Count(Main)
  \/ ReturnSince(Main)

SpecEvents == Init /\ [][NextEvents]_vars

\* a hook of a plugin holds a reference to the manager that runs it and calls
\* one of its methods: the second frame is that call, made on the goroutine
\* of the first, which goes on when the call returns
Inner == CHOOSE t \in Threads : t # Main

\* the hook a method is about to invoke: lines 147, 166, 183, 200 and 217
AtHook(t) ==
  /\ thr[t].pc = "crit"
  /\ LET k == thr[t].i
     IN CASE thr[t].op = "Shutdown" -> k >= 1
          [] thr[t].op = "Initialize" ->
               /\ ~(k = 1 /\ AlreadyInitialized(initialized))
               /\ k <= Len(plugins)
               /\ ~Disabled(configs, plugins[k])
          [] thr[t].op \in DispatchOps ->
               /\ k <= Len(plugins)
               /\ ~Disabled(configs, plugins[k])
          [] OTHER -> FALSE

\* the calls of Register, Unregister, SetEnabled, Initialize and Shutdown as
\* they stand when they reach the lock, or return before it (lines 67-72)
HookFrames ==
  {[Idle EXCEPT !.pc = IF ArgError(p) # NoErr THEN "ret" ELSE LockKind("Register"),
                !.op = "Register", !.plugin = p, !.err = ArgError(p)] :
     p \in Names \cup {NilPlugin, EmptyName}}
  \cup {[Idle EXCEPT !.pc = LockKind("Unregister"), !.op = "Unregister",
                     !.plugin = n] : n \in Names}
  \cup {[Idle EXCEPT !.pc = LockKind("SetEnabled"), !.op = "SetEnabled",
                     !.plugin = n, !.enabled = e] : n \in Names, e \in BOOLEAN}
  \cup {[Idle EXCEPT !.pc = LockKind(op), !.op = op] : op \in {"Initialize", "Shutdown"}}

\* the hook calls a mutating method of the manager
HookCalls(t, u) ==
  /\ UNCHANGED <<btVars, fnVars, life>>
  /\ AtHook(t) /\ thr[u].pc = "idle"
  /\ \E f \in HookFrames : thr' = [thr EXCEPT ![t].pc = "hook", ![u] = f]
  /\ UNCHANGED <<plugins, configs, initialized, mu, regOrder, regCount>>

\* the method called by the hook returns (its deferred Unlock runs) and the
\* hook goes on
HookReturns(t, u) ==
  /\ UNCHANGED <<btVars, fnVars, life>>
  /\ thr[t].pc = "hook" /\ thr[u].pc = "ret"
  /\ mu' = [w |-> mu.w \ {u}, readers |-> mu.readers \ {u}]
  /\ thr' = [thr EXCEPT ![t].pc = "crit", ![u] = Idle]
  /\ UNCHANGED <<plugins, configs, initialized, regOrder, regCount>>

\* one goroutine calls the manager's methods one after another, and the
\* hooks it runs may call the manager back
NextHook ==
  \/ CallRegister(Main)
  \/ CallNamed(Main)
  \/ CallPlain(Main)
  \/ HookCalls(Main, Inner)
  \/ HookReturns(Main, Inner)
  \/ Return(Main)
  \/ \E t \in Threads :
       \/ LockAnnounce(t)
       \/ LockAcquire(t)
       \/ RLock(t)
       \/ RegisterCheck(t)
       \/ RegisterInsert(t, NilCfgArgs(plugins))
       \/ Unregister(t)
       \/ SetEnabled(t)
       \/ Initialize(t)
       \/ OnToolCall(t)
       \/ OnMessage(t)
       \/ OnComplete(t)
       \/ Shutdown(t)
       \/ List(t)
       \/ Get(t)
       \/ Count(t)

SpecHook == Init /\ [][NextHook]_vars

\* ------------------------------------------------- permission functions
\* the plugin manager and the budget tracker, constructed and not used
ManagerUnused ==
  /\ plugins = <<>>
  /\ configs = [c \in CfgIds |-> FreshConfig]
  /\ initialized = FALSE
  /\ mu = [w |-> {}, readers |-> {}]
  /\ thr = [t \in Threads |-> Idle]
  /\ regOrder = <<>>
  /\ regCount = [n \in Names |-> 0]
  /\ life = NoLife
TrackerUnused ==
  /\ totalSpent = 0
  /\ sessionSpent = [s \in SessionIds |-> NoKey]
  /\ config = ZeroConfig
  /\ warningEmitted = FALSE
  /\ spawned = EmptyBag
  /\ addErr = "none"
  /\ reached = FALSE
  /\ warnings = 0
  /\ btmu = [w |-> {}, readers |-> {}]
  /\ bthr = [t \in BtThreads |-> BtIdle]
  /\ ledger = NoLedger

\* ChainCallbacks(callbacks...) has returned its callback, which is called
InitChain ==
  /\ ManagerUnused
  /\ TrackerUnused
  /\ parse = NoParse
  /\ match = NoMatch
  /\ scope = NoScope
  /\ nested = NoNested
  /\ \E cbs \in Chains :
       chain = [NoChain EXCEPT !.callbacks = cbs, !.pc = "loop", !.i = 1]

\* line 179: result.Behavior != PermissionAllow
ChainStops_OnDeny(r) == r.behavior = "deny"
ChainStops(r) == r.behavior # "allow"
\* line 177: return PermissionResult{}, err
ErrResult_Keep(r) == r
ErrResult(r) == EmptyResult

\* ChainCallbacks, lines 171-183: one iteration of the loop, or the return
\* after it
ChainStep ==
  /\ chain.pc = "loop"
  /\ LET k == chain.i
         cb == chain.callbacks[k]
     IN chain' =
          IF k > Len(chain.callbacks)
          THEN [chain EXCEPT !.pc = "done", !.result = Allow, !.err = "nil"]
          ELSE IF cb.nil
          THEN [chain EXCEPT !.i = k + 1]
          ELSE IF cb.err # "nil"
          THEN [chain EXCEPT !.pc = "done", !.invoked = Append(@, k),
                             !.result = ErrResult(cb.result), !.err = cb.err]
          ELSE IF ChainStops(cb.result)
          THEN [chain EXCEPT !.pc = "done", !.invoked = Append(@, k),
                             !.result = cb.result, !.err = "nil"]
          ELSE [chain EXCEPT !.i = k + 1, !.invoked = Append(@, k)]
  /\ UNCHANGED <<parse, match, scope, nested>>
  /\ UNCHANGED <<pmVars, btVars>>

NextChain == ChainStep

SpecChain == InitChain /\ [][NextChain]_vars

\* strings.Contains(s, c) for a single character c
Contains(s, c) == \E k \in 1..Len(s) : s[k] = c
\* strings.TrimSpace
RECURSIVE TrimLeft(_)
TrimLeft(s) == IF s # <<>> /\ Head(s) = " " THEN TrimLeft(Tail(s)) ELSE s
RECURSIVE TrimRight(_)
TrimRight(s) ==
  IF s # <<>> /\ s[Len(s)] = " " THEN TrimRight(SubSeq(s, 1, Len(s) - 1)) ELSE s
TrimSpace_None(s) == s
TrimSpace(s) == TrimRight(TrimLeft(s))

\* s matches [^cs]+
Plus(s, cs) == s # <<>> /\ \A k \in 1..Len(s) : s[k] \notin cs
\* the ways s matches ^([^(]+)\(([^:)]+)(?::([^:)]+))?\)$, line 221: the
\* texts of the three groups, the third empty when its group takes no part
Submatches(s) ==
  LET last == Len(s)
      \* where the "(" after group 1 and the ":" or ")" after group 2 stand
      splits ==
        {p \in (1..last) \X (1..last) :
           /\ p[1] < p[2] /\ s[p[1]] = "(" /\ s[last] = ")"
           /\ Plus(SubSeq(s, 1, p[1] - 1), {"("})
           /\ Plus(SubSeq(s, p[1] + 1, p[2] - 1), {":", ")"})
           /\ \/ p[2] = last
              \/ /\ p[2] < last /\ s[p[2]] = ":"
                 /\ Plus(SubSeq(s, p[2] + 1, last - 1), {":", ")"})}
  IN {<<SubSeq(s, 1, p[1] - 1), SubSeq(s, p[1] + 1, p[2] - 1),
        IF p[2] = last THEN <<>> ELSE SubSeq(s, p[2] + 1, last - 1)>> : p \in splits}
\* regexp.FindStringSubmatch, line 222: nil, or the match and its groups
FindStringSubmatch(s) ==
  IF Submatches(s) = {} THEN <<>>
  ELSE LET m == CHOOSE x \in Submatches(s) : TRUE IN <<s, m[1], m[2], m[3]>>

Fail(e) == [NoPermission EXCEPT !.err = e]
\* ParseToolPermission, lines 201-251
ParseToolPermission(permission) ==
  IF permission = <<>> THEN Fail("empty permission string")
  ELSE IF ~Contains(permission, "(")
  THEN [NoPermission EXCEPT !.ok = TRUE, !.Tool = TrimSpace(permission),
                            !.Original = permission]
  ELSE LET matches == FindStringSubmatch(permission)
           tool == TrimSpace(matches[2])
           command == TrimSpace(matches[3])
           pattern == IF matches[4] # <<>> THEN TrimSpace(matches[4]) ELSE <<>>
       IN IF Len(matches) < 3 THEN Fail("invalid tool permission format")
          ELSE IF tool = <<>> THEN Fail("tool name cannot be empty")
          ELSE IF command = <<>> THEN Fail("command cannot be empty")
          ELSE [NoPermission EXCEPT !.ok = TRUE, !.Tool = tool,
                                    !.Command = command, !.Pattern = pattern,
                                    !.Original = permission]

\* ParseToolPermission is about to be called with some string
InitParse ==
  /\ ManagerUnused
  /\ TrackerUnused
  /\ chain = NoChain
  /\ match = NoMatch
  /\ scope = NoScope
  /\ nested = NoNested
  /\ \E s \in Strings : parse = [NoParse EXCEPT !.input = s, !.pc = "call"]

ParseCall ==
  /\ parse.pc = "call"
  /\ parse' = [parse EXCEPT !.pc = "done", !.out = ParseToolPermission(parse.input)]
  /\ UNCHANGED <<chain, match, scope, nested>>
  /\ UNCHANGED <<pmVars, btVars>>

\* String, lines 273-275
String_ToLegacyFormat(tp) == tp.Tool
String(tp) == tp.Original

\* the caller prints the permission it was given: String on a non-nil result
StringCall ==
  /\ parse.pc = "done" /\ parse.out.ok
  /\ parse' = [parse EXCEPT !.pc = "printed", !.str = String(parse.out)]
  /\ UNCHANGED <<chain, match, scope, nested>>
  /\ UNCHANGED <<pmVars, btVars>>

\* and parses what String returned
ParseAgain ==
  /\ parse.pc = "printed"
  /\ parse' = [parse EXCEPT !.pc = "reparsed", !.again = ParseToolPermission(parse.str)]
  /\ UNCHANGED <<chain, match, scope, nested>>
  /\ UNCHANGED <<pmVars, btVars>>

NextParse ==
  \/ ParseCall
  \/ StringCall
  \/ ParseAgain

SpecParse == InitParse /\ [][NextParse]_vars

\* strings.HasPrefix, strings.HasSuffix, strings.TrimSuffix, strings.TrimPrefix
HasPrefix(s, prefix) ==
  Len(prefix) <= Len(s) /\ SubSeq(s, 1, Len(prefix)) = prefix
HasSuffix(s, suffix) ==
  Len(suffix) <= Len(s) /\ SubSeq(s, Len(s) - Len(suffix) + 1, Len(s)) = suffix
TrimSuffix_Keep(s, suffix) == s
TrimSuffix(s, suffix) ==
  IF HasSuffix(s, suffix) THEN SubSeq(s, 1, Len(s) - Len(suffix)) ELSE s
TrimPrefix(s, prefix) ==
  IF HasPrefix(s, prefix) THEN SubSeq(s, Len(prefix) + 1, Len(s)) ELSE s

\* HasPattern, lines 288-290
HasPattern(tp) == tp.Pattern # <<>>
\* MatchesPattern, lines 314-349
MatchesPattern(tp, path) ==
  IF ~HasPattern(tp) THEN TRUE
  ELSE IF tp.Pattern = <<"*">> THEN TRUE
  ELSE IF tp.Pattern = path THEN TRUE
  ELSE IF HasSuffix(tp.Pattern, <<"*", "*">>)
  THEN HasPrefix(path, TrimSuffix(tp.Pattern, <<"*", "*">>))
  ELSE IF HasSuffix(tp.Pattern, <<"*">>)
  THEN HasPrefix(path, TrimSuffix(tp.Pattern, <<"*">>))
  ELSE IF HasPrefix(tp.Pattern, <<"*">>)
  THEN HasSuffix(path, TrimPrefix(tp.Pattern, <<"*">>))
  ELSE FALSE

\* patterns and paths: two characters that are not "*", and "*"
PathAlphabet == {"a", "b", "*"}
Paths == UNION {[1..n -> PathAlphabet] : n \in 0..MaxPath}

\* MatchesPattern is about to be called on a ToolPermission with some
\* Pattern, with some path
InitMatch ==
  /\ ManagerUnused
  /\ TrackerUnused
  /\ chain = NoChain
  /\ parse = NoParse
  /\ scope = NoScope
  /\ nested = NoNested
  /\ \E pattern \in Paths, path \in Paths :
       match = [NoMatch EXCEPT !.pattern = pattern, !.path = path, !.pc = "call"]

MatchCall ==
  /\ match.pc = "call"
  /\ match' = [match EXCEPT !.pc = "done",
         !.out = MatchesPattern([NoPermission EXCEPT !.Pattern = match.pattern],
                                match.path)]
  /\ UNCHANGED <<chain, parse, scope, nested>>
  /\ UNCHANGED <<pmVars, btVars>>

NextMatch == MatchCall

SpecMatch == InitMatch /\ [][NextMatch]_vars

\* Deny, lines 71-73, and Allow, lines 66-68, with the message as a text;
\* fmt.Sprintf(format, arg) as the pair of its arguments
Deny(message) == Result("deny", message)
AllowText == Result("allow", <<>>)
Sprintf(format, arg) == <<format, arg>>
\* lines 127-131
fileTools == {"Read", "Write", "Edit"}
\* lines 142-146: the first denied path that is a prefix of filePath, 0 if
\* there is none
RECURSIVE FirstDenied(_, _, _)
FirstDenied(deniedPaths, filePath, k) ==
  IF k > Len(deniedPaths) THEN 0
  ELSE IF HasPrefix(filePath, deniedPaths[k]) THEN k
  ELSE FirstDenied(deniedPaths, filePath, k + 1)
\* lines 150-156
RECURSIVE AnyAllowed(_, _, _)
AnyAllowed(allowedPaths, filePath, k) ==
  IF k > Len(allowedPaths) THEN FALSE
  ELSE IF HasPrefix(filePath, allowedPaths[k]) THEN TRUE
  ELSE AnyAllowed(allowedPaths, filePath, k + 1)
\* the callback that FilePathCallback returns, lines 126-163
FilePathCallback_AllowedFirst(allowedPaths, deniedPaths, toolName, filePath) ==
  IF toolName \notin fileTools THEN AllowText
  ELSE IF filePath = <<>> THEN AllowText
  ELSE IF AnyAllowed(allowedPaths, filePath, 1) THEN AllowText
  ELSE IF FirstDenied(deniedPaths, filePath, 1) # 0
  THEN Deny(Sprintf("Access to path %s is denied",
                    deniedPaths[FirstDenied(deniedPaths, filePath, 1)]))
  ELSE IF Len(allowedPaths) > 0
  THEN Deny(Sprintf("File path %s is not in allowed paths", filePath))
  ELSE AllowText
FilePathCallback(allowedPaths, deniedPaths, toolName, filePath) ==
  IF toolName \notin fileTools THEN AllowText
  ELSE IF filePath = <<>> THEN AllowText
  ELSE IF FirstDenied(deniedPaths, filePath, 1) # 0
  THEN Deny(Sprintf("Access to path %s is denied",
                    deniedPaths[FirstDenied(deniedPaths, filePath, 1)]))
  ELSE IF Len(allowedPaths) > 0 /\ ~AnyAllowed(allowedPaths, filePath, 1)
  THEN Deny(Sprintf("File path %s is not in allowed paths", filePath))
  ELSE AllowText

\* tool names: the three file tools and another; file paths; the prefixes
\* in the two lists
ToolNames == {"Read", "Write", "Edit", "Bash"}
FilePaths == UNION {[1..n -> {"a", "b"}] : n \in 0..MaxPath}
Prefixes == {<<>>, <<"a">>, <<"a", "b">>}
PrefixLists == UNION {[1..n -> Prefixes] : n \in 0..MaxPrefixes}

\* the callback of FilePathCallback(allowedPaths, deniedPaths) is about to be
\* called with a tool name and an input's FilePath
InitScope ==
  /\ ManagerUnused
  /\ TrackerUnused
  /\ chain = NoChain
  /\ parse = NoParse
  /\ match = NoMatch
  /\ \E allowedPaths \in PrefixLists, deniedPaths \in PrefixLists,
        toolName \in ToolNames, filePath \in FilePaths :
       scope = [NoScope EXCEPT !.allowedPaths = allowedPaths,
                               !.deniedPaths = deniedPaths, !.toolName = toolName,
                               !.filePath = filePath, !.pc = "call"]
  /\ nested = NoNested

ScopeCall ==
  /\ scope.pc = "call"
  /\ scope' = [scope EXCEPT !.pc = "done",
         !.out = FilePathCallback(scope.allowedPaths, scope.deniedPaths,
                                  scope.toolName, scope.filePath)]
  /\ UNCHANGED <<chain, parse, match, nested>>
  /\ UNCHANGED <<pmVars, btVars>>

NextScope == ScopeCall

\* a callback: a function the caller wrote (the argument number id of the
\* call says which), or the closure that ChainCallbacks returns, line 170
Leaf(f, id) ==
  [chained |-> FALSE, nil |-> f.nil, result |-> f.result, err |-> f.err,
   id |-> id, of |-> <<>>]
ChainCallbacks(callbacks) ==
  [chained |-> TRUE, nil |-> FALSE, result |-> EmptyResult, err |-> "nil",
   id |-> 0, of |-> callbacks]

\* the call cb(ctx, toolName, input) of line 175, and the loop of lines
\* 171-183 from the k-th callback on, inv being the functions that have run
RECURSIVE Invoke(_), RunChain(_, _, _)
Invoke(cb) ==
  IF cb.chained THEN RunChain(cb.of, 1, <<>>)
  ELSE [result |-> cb.result, err |-> cb.err, invoked |-> <<cb.id>>]
RunChain(callbacks, k, inv) ==
  IF k > Len(callbacks)
  THEN [result |-> Allow, err |-> "nil", invoked |-> inv]
  ELSE IF callbacks[k].nil
  THEN RunChain(callbacks, k + 1, inv)
  ELSE LET o == Invoke(callbacks[k])
       IN IF o.err # "nil"
          THEN [result |-> ErrResult(o.result), err |-> o.err,
                invoked |-> inv \o o.invoked]
          ELSE IF ChainStops(o.result)
          THEN [result |-> o.result, err |-> "nil", invoked |-> inv \o o.invoked]
          ELSE RunChain(callbacks, k + 1, inv \o o.invoked)

\* three functions, chained in three ways
InitNested ==
  /\ ManagerUnused
  /\ TrackerUnused
  /\ chain = NoChain
  /\ parse = NoParse
  /\ match = NoMatch
  /\ scope = NoScope
  /\ \E a \in Fns, b \in Fns, c \in Fns :
       nested = [NoNested EXCEPT !.a = a, !.b = b, !.c = c, !.pc = "call"]

NestedCall ==
  /\ nested.pc = "call"
  /\ LET a == Leaf(nested.a, 1)
         b == Leaf(nested.b, 2)
         c == Leaf(nested.c, 3)
     IN nested' = [nested EXCEPT
          !.pc = "done",
          !.left = Invoke(ChainCallbacks(<<ChainCallbacks(<<a, b>>), c>>)),
          !.right = Invoke(ChainCallbacks(<<a, ChainCallbacks(<<b, c>>)>>)),
          !.flat = Invoke(ChainCallbacks(<<a, b, c>>))]
  /\ UNCHANGED <<chain, parse, match, scope>>
  /\ UNCHANGED <<pmVars, btVars>>

NextNested == NestedCall

SpecNested == InitNested /\ [][NextNested]_vars

SpecScope == InitScope /\ [][NextScope]_vars

\* ---------------------------------------------------------------------
\* Properties of the plugin manager
\* ---------------------------------------------------------------------
\* the goroutine is inside the critical section of its method
HoldsLock(t) == thr[t].pc \in {"crit", "insert", "ret"} /\ t \in (mu.w \cup mu.readers)
AtRet(t, ops) == thr[t].pc = "ret" /\ thr[t].op \in ops
CallNames(t) == [k \in 1..Len(thr[t].calls) |-> thr[t].calls[k].plugin]
Failed(t) == {k \in 1..Len(thr[t].calls) : thr[t].calls[k].res # "nil"}
IsOn(e) == configs[e.config].Enabled
OnNames(ps) == NameList(SelectSeq(ps, IsOn))
\* the priority the entry's config asks for: 100 for a priority of 0
ConfigPriority(e) ==
  IF configs[e.config].Priority = 0 THEN 100 ELSE configs[e.config].Priority
RegPos(n) == Min({k \in 1..Len(regOrder) : regOrder[k] = n})
InListOrder(a, b) ==
  \/ ConfigPriority(a) < ConfigPriority(b)
  \/ ConfigPriority(a) = ConfigPriority(b) /\ RegPos(a.plugin) < RegPos(b.plugin)

\* C1: whatever Register and Unregister calls came before, the registry, and
\* so the names List() returns, is in non-decreasing effective priority (the
\* config's priority, 100 for a missing config or a priority of 0), and
\* entries of equal effective priority are in the order of their registration.
C1_ListOrder ==
  /\ \A i, j \in 1..Len(plugins) : i < j => InListOrder(plugins[i], plugins[j])
  /\ \A t \in Threads : AtRet(t, {"List"}) /\ HoldsLock(t) =>
        thr[t].val = [k \in 1..Len(plugins) |-> plugins[k].plugin]

\* List() returned two plugins of equal effective priority, the first one
\* registered with priority 0 and the second without a config, after the
\* second had been unregistered and registered again
C1_Witness ==
  /\ AtRet(Main, {"List"}) /\ thr[Main].val = <<"b", "a">>
  /\ Len(plugins) = 2
  /\ configs[plugins[1].config].Priority = 0
  /\ configs[plugins[2].config].Priority = 100
  /\ regOrder = <<"b", "a">>

\* C2 as stated: every dispatch invokes the hook on every enabled entry exactly
\* once, in List() order
C2_Original ==
  \A t \in Threads : AtRet(t, DispatchOps) => CallNames(t) = OnNames(plugins)

\* C2 as amended: a dispatch invokes the hook once on each enabled entry, one
\* after another in List() order, up to the end of the list when no hook
\* fails and up to the first hook that fails otherwise
C2_DispatchOrder ==
  \A t \in Threads : thr[t].op \in DispatchOps /\ HoldsLock(t) =>
    /\ CallNames(t) = OnNames(SubSeq(plugins, 1, thr[t].i - 1))
    /\ thr[t].pc = "ret" /\ Failed(t) = {} => thr[t].i = Len(plugins) + 1
    /\ Failed(t) \subseteq {Len(thr[t].calls)}

\* a dispatch returned after invoking two plugins of different priority, the
\* one registered later first
C2_Witness ==
  /\ AtRet(Main, DispatchOps) /\ Failed(Main) = {}
  /\ CallNames(Main) = <<"b", "a">>
  /\ regOrder = <<"a", "b">>
  /\ plugins[1].priority < plugins[2].priority

\* C3: when a hook fails in a dispatch, no plugin after the failing one gets
\* the hook, every enabled plugin before it has got it, and the dispatch
\* returns an error that names the failing plugin and wraps its error.
C3_FailFast ==
  \A t \in Threads : AtRet(t, DispatchOps) /\ HoldsLock(t) =>
    /\ Failed(t) = {} <=> thr[t].err = NoErr
    /\ Failed(t) # {} =>
         LET last == thr[t].calls[Len(thr[t].calls)]
             at == {k \in 1..Len(plugins) : plugins[k].plugin = last.plugin}
         IN /\ Failed(t) = {Len(thr[t].calls)}
            /\ Cardinality(at) = 1
            /\ CallNames(t) = OnNames(SubSeq(plugins, 1, Min(at)))
            /\ thr[t].err.plugin = last.plugin
            /\ thr[t].err.cause = last.res

\* a dispatch failed at the first of two enabled plugins
C3_Witness ==
  /\ AtRet(Main, DispatchOps) /\ thr[Main].err # NoErr
  /\ Len(plugins) = 2 /\ IsOn(plugins[1]) /\ IsOn(plugins[2])
  /\ Len(thr[Main].calls) = 1

HookOps == DispatchOps \cup {"Initialize", "Shutdown"}
OnlyEnabledCalled(t) ==
  \A k \in 1..Len(thr[t].calls) :
    \E j \in 1..Len(plugins) :
      plugins[j].plugin = thr[t].calls[k].plugin /\ IsOn(plugins[j])

\* C4 as stated: a disabled plugin gets no hook of any kind, Shutdown included
C4_Original ==
  \A t \in Threads : thr[t].op \in HookOps /\ HoldsLock(t) => OnlyEnabledCalled(t)

\* C4 as amended: a disabled plugin gets no Initialize, OnToolCall, OnMessage
\* or OnComplete hook; Shutdown invokes its Shutdown hook all the same
C4_DisabledSkipped ==
  \A t \in Threads :
    /\ thr[t].op \in HookOps \ {"Shutdown"} /\ HoldsLock(t) => OnlyEnabledCalled(t)
    /\ AtRet(t, {"Shutdown"}) /\ HoldsLock(t) =>
         \A j \in 1..Len(plugins) :
           \E k \in 1..Len(thr[t].calls) : thr[t].calls[k].plugin = plugins[j].plugin

\* Initialize returned after skipping a disabled plugin and initializing an
\* enabled one that sorts after it
C4_Witness ==
  /\ AtRet(Main, {"Initialize"}) /\ Len(plugins) = 2
  /\ ~IsOn(plugins[1]) /\ IsOn(plugins[2])
  /\ CallNames(Main) = <<plugins[2].plugin>>

\* C5: Initialize on an initialized manager returns nil and invokes no hook;
\* the successful Initialize before it invoked each enabled plugin's hook once.
C5_InitializeIdempotent ==
  \A t \in Threads : AtRet(t, {"Initialize"}) /\ HoldsLock(t) =>
    /\ thr[t].pre.initialized =>
         thr[t].err = NoErr /\ thr[t].calls = <<>> /\ initialized
    /\ ~thr[t].pre.initialized /\ thr[t].err = NoErr =>
         CallNames(t) = OnNames(plugins) /\ initialized

\* a second Initialize returned on a manager with two enabled plugins
C5_Witness ==
  /\ AtRet(Main, {"Initialize"}) /\ thr[Main].pre.initialized
  /\ Len(OnNames(plugins)) = 2

\* C6: Shutdown invokes the Shutdown hooks in the reverse of List() order.
C6_ShutdownReverse ==
  \A t \in Threads : thr[t].op = "Shutdown" /\ HoldsLock(t) =>
    CallNames(t) = SubSeq(Reverse(NameList(plugins)), 1, Len(plugins) - thr[t].i)

\* with a at priority 50 and b at priority 100, b was shut down before a
C6_Witness ==
  /\ AtRet(Main, {"Shutdown"})
  /\ Len(plugins) = 2
  /\ plugins[1].plugin = "a" /\ plugins[1].priority = 50
  /\ plugins[2].plugin = "b" /\ plugins[2].priority = 100
  /\ CallNames(Main) = <<"b", "a">>

\* C7: Shutdown invokes the hook of every entry exactly once, disabled entries
\* and entries after a failure included, and returns nil when no hook failed
\* and otherwise the wrapped error of the failing plugin lowest in List().
C7_ShutdownAll ==
  \A t \in Threads : AtRet(t, {"Shutdown"}) /\ HoldsLock(t) =>
    /\ Len(thr[t].calls) = Len(plugins)
    /\ \A j \in 1..Len(plugins) :
         Cardinality({k \in 1..Len(thr[t].calls) :
                        thr[t].calls[k].plugin = plugins[j].plugin}) = 1
    /\ Failed(t) = {} => thr[t].err = NoErr
    /\ Failed(t) # {} =>
         LET bad == {j \in 1..Len(plugins) :
                       \E k \in Failed(t) : thr[t].calls[k].plugin = plugins[j].plugin}
         IN /\ thr[t].err.plugin = plugins[Min(bad)].plugin
            /\ thr[t].err.cause = HookErr
            /\ thr[t].err.msg = "failed to shutdown plugin"
    /\ ~initialized

\* Shutdown returned after both hooks failed, one of them a disabled plugin's
C7_Witness ==
  /\ AtRet(Main, {"Shutdown"}) /\ Len(plugins) = 2
  /\ Failed(Main) = {1, 2}
  /\ ~IsOn(plugins[2])

\* C8: of the Register calls that goroutines make concurrently with one name,
\* exactly one succeeds, and no two entries ever have the same name.
C8_OneRegistration ==
  \A n \in Names :
    /\ Cardinality({k \in 1..Len(plugins) : plugins[k].plugin = n}) <= 1
    /\ regCount[n] = IF \E k \in 1..Len(plugins) : plugins[k].plugin = n THEN 1 ELSE 0
    /\ \A t \in Threads : AtRet(t, {"Register"}) /\ thr[t].plugin = n =>
         IF thr[t].err = NoErr
         THEN \E k \in 1..Len(plugins) : plugins[k].plugin = n
         ELSE thr[t].err = [msg |-> "already registered", plugin |-> n, cause |-> "nil"]

\* one goroutine's Register succeeded while another goroutine's Register of
\* the same name waits for the lock
C8_Witness ==
  \E t, u \in Threads :
    /\ t # u
    /\ AtRet(t, {"Register"}) /\ thr[t].err = NoErr
    /\ thr[u].op = "Register" /\ thr[u].pc = "Lock"
    /\ thr[u].plugin = thr[t].plugin

\* C9: Register returns an error for an absent plugin, for an empty name and
\* for a registered name, and then leaves the entries, their order, their
\* enabled flags, the count and the initialized flag as they were.
C9_Returned ==
  \A t \in Threads : AtRet(t, {"Register"}) =>
    /\ thr[t].plugin \in {NilPlugin, EmptyName} => thr[t].err # NoErr /\ ~HoldsLock(t)
    /\ HoldsLock(t) =>
         /\ (\E k \in 1..Len(thr[t].pre.plugins) :
               thr[t].pre.plugins[k].plugin = thr[t].plugin) => thr[t].err # NoErr
         /\ thr[t].err # NoErr =>
              /\ plugins = thr[t].pre.plugins
              /\ Len(plugins) = Len(thr[t].pre.plugins)
              /\ configs = thr[t].pre.configs
              /\ initialized = thr[t].pre.initialized
\* a call that returns without taking the lock is one step
C9_Unlocked ==
  \A t \in Threads :
    thr[t].pc = "idle" /\ thr'[t].pc = "ret" =>
      /\ thr'[t].op = "Register"
      /\ UNCHANGED <<plugins, configs, initialized>>
C9_RegisterErrors == []C9_Returned /\ [][C9_Unlocked]_vars

\* Register of a registered name failed on an initialized manager of two
\* plugins, one of them disabled
C9_Witness ==
  /\ AtRet(Main, {"Register"}) /\ thr[Main].plugin \in Names
  /\ thr[Main].err # NoErr
  /\ Len(plugins) = 2 /\ initialized
  /\ \E k \in 1..2 : ~IsOn(plugins[k])

\* ---------------------------------------------------------------------
\* C10: in every state reached by AddSpend, Reset, ResetSession and
\* UpdateConfig calls, observed between operations, totalSpent equals the
\* sum of the amounts recorded in sessionSpent over all sessions (added up
\* in float64, as a caller would).
\* The code keeps two float64 accumulators that round independently:
\* totalSpent rounds the running total, each map entry rounds its own sum,
\* and ResetSession subtracts an entry from an already rounded total.
RECURSIVE SumOver(_, _)
SumOver(m, ids) ==
  IF ids = {} THEN 0
  ELSE LET id == CHOOSE x \in ids : TRUE
       IN FAdd(SessionValue(m, id), SumOver(m, ids \ {id}))
C10_Original == totalSpent = SumOver(sessionSpent, SessionIds)

\* ---------------------------------------------------------------------
\* C11: AddSpend returns ErrBudgetExceeded exactly when MaxBudgetUSD > 0 and
\* the total after adding the amount is strictly greater than MaxBudgetUSD
\* (a total equal to the maximum is no error), and the amount is added to
\* the session's total and to the global total whatever it returns.
C11_Step(id, amount) ==
  AddSpend(id, amount) =>
    /\ addErr' = IF /\ config.MaxBudgetUSD > 0
                    /\ Fl(totalSpent + amount) > config.MaxBudgetUSD
                 THEN "ErrBudgetExceeded" ELSE "nil"
    /\ totalSpent' = Fl(totalSpent + amount)
    /\ sessionSpent'[id].has
    /\ sessionSpent'[id].v = Fl(SessionValue(sessionSpent, id) + amount)
C11_BudgetExceeded ==
  [][\A id \in SessionIds, amount \in Amounts : C11_Step(id, amount)]_vars
\* max = 10: AddSpend(s1, 5) then AddSpend(s1, 6) has returned the error and
\* both totals are 11
C11_Witness ==
  /\ addErr = "ErrBudgetExceeded" /\ config.MaxBudgetUSD = 10
  /\ totalSpent = 11 /\ sessionSpent["s1"] = [has |-> TRUE, v |-> 11]
  /\ ~sessionSpent["s2"].has

\* C12: between two re-armings of the latch (construction, Reset,
\* UpdateConfig) the warning callback is started exactly once if some
\* AddSpend brings the total to MaxBudgetUSD * WarningThreshold or more
\* while both are positive, by the first such AddSpend, and never otherwise.
\* (Nothing is started when OnBudgetWarning is nil.)
C12_Count == warnings = IF reached /\ config.OnBudgetWarning THEN 1 ELSE 0
C12_First == warnings' # warnings => (warnings' = 0 \/ (~reached /\ reached'))
C12_WarningOnce == []C12_Count /\ [][C12_First]_vars
\* a second AddSpend at or above the warning amount has started no second
\* warning
C12_Witness ==
  /\ warnings = 1 /\ config.OnBudgetWarning /\ config.MaxBudgetUSD = 10
  /\ totalSpent = 12 /\ addErr = "ErrBudgetExceeded"

\* C13: no operation other than Reset and ResetSession lowers totalSpent,
\* whatever the arguments of AddSpend.
C13_Original ==
  [][totalSpent' < totalSpent => (Reset \/ ResetSession(CbSession))]_vars

\* ---------------------------------------------------------------------
\* C14: when goroutines call AddSpend concurrently no update is lost. As
\* claimed: once all calls have returned, totalSpent is the sum of all the
\* amounts and each session's entry the sum of the amounts added to it.
Quiescent == \A t \in BtThreads : bthr[t].pc = "idle"
C14_Original ==
  Quiescent =>
    /\ totalSpent = ledger.exact
    /\ \A id \in SessionIds : SessionValue(sessionSpent, id) = ledger.exactBy[id]
\* C14, as the code has it: whenever no AddSpend is between its reads and its
\* writes, so also once all calls have returned, totalSpent and every
\* session's entry are the amounts of all calls so far added up in float64
\* in the order in which the calls held the lock.
C14_NoLostUpdate ==
  (\A t \in BtThreads : bthr[t].pc \notin {"load", "store"}) =>
    /\ totalSpent = ledger.total
    /\ \A id \in SessionIds : SessionValue(sessionSpent, id) = ledger.by[id]
\* one AddSpend has stored its sums while another AddSpend, called
\* concurrently, waits for the lock, after earlier calls
C14_Witness ==
  \E t, u \in BtThreads :
    /\ bthr[t].op = "AddSpend" /\ bthr[t].pc = "ret"
    /\ bthr[u].op = "AddSpend" /\ bthr[u].pc = "Lock"
    /\ totalSpent > bthr[t].amount
    /\ sessionSpent["s1"].has /\ sessionSpent["s2"].has

\* C15: AddSpend returns without waiting for a callback to run, and a
\* callback that calls back into the tracker (TotalSpent, RemainingBudget,
\* ResetSession, AddSpend) completes: the lock is never held forever.
C15_NoWait == \A t \in BtThreads : bthr[t].pc = "ret" => ENABLED BtReturn(t)
C15_CallbacksComplete ==
  /\ []C15_NoWait
  /\ \A t \in BtThreads : bthr[t].cb ~> ~bthr[t].cb
  /\ \A t \in BtThreads : (t \in btmu.w) ~> (t \notin btmu.w)
\* AddSpend has returned, one of its callbacks has not run yet, and the other
\* is inside AddSpend, holding the lock
C15_Witness ==
  /\ bthr[Main].pc = "idle" /\ spawned # EmptyBag
  /\ bthr[Runner].cb /\ bthr[Runner].op = "AddSpend" /\ bthr[Runner].pc = "store"

\* C17: every read and write of totalSpent, sessionSpent, warningEmitted and
\* the config is made while the goroutine holds the tracker's lock.
C17_Original ==
  \A t \in BtThreads :
    bthr[t].pc \in {"cfgread", "load", "store", "crit"} =>
      t \in (btmu.w \cup btmu.readers)

\* ---------------------------------------------------------------------
\* C16 as stated: a dispatch that runs concurrently with Register,
\* Unregister, SetEnabled, Initialize or Shutdown invokes exactly the enabled
\* entries of the registry as it stood at one instant, in that order.
EnabledAt(cf, ps) ==
  LET on(e) == cf[e.config].Enabled
  IN NameList(SelectSeq(ps, on))
C16_Original ==
  \A t \in Threads : AtRet(t, DispatchOps) =>
    CallNames(t) = EnabledAt(thr[t].pre.configs, thr[t].pre.plugins)

\* C16 as amended: from the instant a dispatch gets the read lock until it
\* returns, the registry (entries, order, enabled flags, initialized) stays
\* as it was at that instant; the dispatch invokes the entries enabled at that
\* instant once each in that order, all of them when no hook fails and those
\* up to the first failing hook otherwise.
C16_DispatchSnapshot ==
  \A t \in Threads : thr[t].op \in DispatchOps /\ HoldsLock(t) =>
    /\ thr[t].pre = [plugins |-> plugins, configs |-> configs,
                     initialized |-> initialized]
    /\ CallNames(t) =
         EnabledAt(thr[t].pre.configs, SubSeq(thr[t].pre.plugins, 1, thr[t].i - 1))
    /\ thr[t].pc = "ret" /\ Failed(t) = {} =>
         CallNames(t) = EnabledAt(thr[t].pre.configs, thr[t].pre.plugins)
    /\ Failed(t) \subseteq {Len(thr[t].calls)}
\* a dispatch has invoked one plugin and skipped a disabled one while another
\* goroutine's SetEnabled or Unregister waits for the dispatch to leave
C16_Witness ==
  \E t, u \in Threads :
    /\ AtRet(t, DispatchOps) /\ Failed(t) = {}
    /\ Len(thr[t].calls) = 1 /\ Len(plugins) = 2
    /\ thr[u].op \in {"SetEnabled", "Unregister"} /\ thr[u].pc = "LockWait"
    /\ thr[u].plugin = thr[t].calls[1].plugin

\* ---------------------------------------------------------------------
\* what the call of a chain should do, from the functions' own results
NonNil(cbs) == {k \in 1..Len(cbs) : ~cbs[k].nil}
Allows(f) == f.err = "nil" /\ f.result.behavior = "allow"
Stops(cbs) == {k \in NonNil(cbs) : ~Allows(cbs[k])}
FirstStop(cbs) == CHOOSE k \in Stops(cbs) : \A l \in Stops(cbs) : k <= l
\* the sequence q lists the numbers in S in ascending order
Ascending(q, S) ==
  /\ {q[k] : k \in 1..Len(q)} = S
  /\ \A a, b \in 1..Len(q) : a < b => q[a] < q[b]

\* C18: the chain's callback calls its non-nil functions in argument order
\* and returns allow if and only if every one of them returns allow (also
\* for an empty chain and a chain of nil entries); otherwise it returns
\* exactly the result, behavior and message, of the first function that
\* returns deny or ask, and calls no function after that one.
C18_ChainResult ==
  chain.pc = "done" =>
    LET cbs == chain.callbacks
    IN /\ (chain.err = "nil" /\ chain.result.behavior = "allow") <=> Stops(cbs) = {}
       /\ Stops(cbs) = {} =>
            chain.result = Allow /\ Ascending(chain.invoked, NonNil(cbs))
       /\ Stops(cbs) # {} /\ cbs[FirstStop(cbs)].err = "nil" =>
            /\ chain.err = "nil"
            /\ chain.result = cbs[FirstStop(cbs)].result
            /\ Ascending(chain.invoked, {k \in NonNil(cbs) : k <= FirstStop(cbs)})
\* Chain(nil, ask("m"), deny("")) has returned
C18_Witness ==
  /\ chain.pc = "done"
  /\ chain.callbacks = <<NilFn, Fn(Result("ask", "m"), "nil"), Fn(Result("deny", ""), "nil")>>
  /\ chain.invoked = <<2>>

\* C19: when a function of the chain returns an error, the chain returns
\* that error with an empty result, whatever result the function returned
\* with the error, and calls no function after it.
C19_ChainError ==
  chain.pc = "done" =>
    LET cbs == chain.callbacks
    IN Stops(cbs) # {} /\ cbs[FirstStop(cbs)].err # "nil" =>
         /\ chain.err = cbs[FirstStop(cbs)].err
         /\ chain.result = EmptyResult
         /\ Ascending(chain.invoked, {k \in NonNil(cbs) : k <= FirstStop(cbs)})
\* the second function returned deny("m") together with an error
C19_Witness ==
  /\ chain.pc = "done"
  /\ chain.callbacks = <<Fn(Result("allow", ""), "nil"), Fn(Result("deny", "m"), "boom"),
                         Fn(Result("allow", ""), "nil")>>
  /\ chain.invoked = <<1, 2>>

\* C20: for an input that contains "(", ParseToolPermission succeeds exactly
\* when the input has the form Tool(command) or Tool(command:pattern) with a
\* non-empty trimmed tool and a non-empty trimmed command; then tool is the
\* trimmed text before the first "(", command the trimmed text up to the
\* first ":" or ")", and pattern the trimmed text between ":" and ")", empty
\* when there is no ":".
FirstOf(s, cs, from) ==
  IF \E k \in from..Len(s) : s[k] \in cs
  THEN CHOOSE k \in from..Len(s) : s[k] \in cs /\ \A l \in from..(k - 1) : s[l] \notin cs
  ELSE 0
\* s without the spaces at its two ends
Strip(s) ==
  LET inked == {k \in 1..Len(s) : s[k] # " "}
  IN IF inked = {} THEN <<>>
     ELSE SubSeq(s, CHOOSE a \in inked : \A b \in inked : a <= b,
                    CHOOSE a \in inked : \A b \in inked : a >= b)
C20_Parts(s) ==
  LET i == FirstOf(s, {"("}, 1)
      j == FirstOf(s, {":", ")"}, i + 1)
      last == Len(s)
      T == SubSeq(s, 1, i - 1)
      C == SubSeq(s, i + 1, j - 1)
      P == IF j # 0 /\ s[j] = ":" THEN SubSeq(s, j + 1, last - 1) ELSE <<>>
  IN [tool |-> Strip(T), command |-> Strip(C), pattern |-> Strip(P),
      form |-> /\ j # 0 /\ s[last] = ")"
               /\ s[j] = ")" => j = last
               /\ s[j] = ":" =>
                    /\ j < last /\ P # <<>>
                    /\ \A k \in 1..Len(P) : P[k] \notin {":", ")"}]
C20_Enhanced ==
  parse.pc = "done" /\ (\E k \in 1..Len(parse.input) : parse.input[k] = "(") =>
    LET parts == C20_Parts(parse.input)
    IN /\ parse.out.ok <=>
            parts.form /\ parts.tool # <<>> /\ parts.command # <<>>
       /\ parse.out.ok =>
            /\ parse.out.Tool = parts.tool
            /\ parse.out.Command = parts.command
            /\ parse.out.Pattern = parts.pattern
\* "a(a :a)" has been parsed: tool "a", command "a", pattern "a"
C20_Witness ==
  /\ parse.pc = "done"
  /\ parse.input = <<"a", "(", "a", " ", ":", "a", ")">>
  /\ parse.out.ok
  /\ parse.out.Command = <<"a">> /\ parse.out.Pattern = <<"a">>

\* C21: ParseToolPermission fails for every input that is empty, that has
\* unbalanced parentheses or lacks the trailing ")", whose tool name is
\* empty, whose enhanced-form command is empty, or that has more than one
\* ":" inside the parentheses.
Occurrences(s, c) == Cardinality({k \in 1..Len(s) : s[k] = c})
Unbalanced(s) ==
  \/ Occurrences(s, "(") # Occurrences(s, ")")
  \/ \E n \in 1..Len(s) : Occurrences(SubSeq(s, 1, n), ")") > Occurrences(SubSeq(s, 1, n), "(")
LacksClosing(s) == Contains(s, "(") /\ s[Len(s)] # ")"
\* the text before the first "(", the whole text when there is none
ToolText(s) ==
  LET i == FirstOf(s, {"("}, 1) IN IF i = 0 THEN s ELSE SubSeq(s, 1, i - 1)
\* the text after the first "(" up to the first ":" or ")"
CommandText(s) ==
  LET i == FirstOf(s, {"("}, 1)
      j == FirstOf(s, {":", ")"}, i + 1)
  IN SubSeq(s, i + 1, IF j = 0 THEN Len(s) ELSE j - 1)
EmptyTool(s) == Strip(ToolText(s)) = <<>>
EmptyCommand(s) == Contains(s, "(") /\ Strip(CommandText(s)) = <<>>
ManyColons(s) ==
  Cardinality({k \in 1..Len(s) :
                 /\ s[k] = ":"
                 /\ \E i \in 1..(k - 1) : s[i] = "("
                 /\ \E j \in (k + 1)..Len(s) : s[j] = ")"}) > 1
C21_Original ==
  parse.pc = "done" =>
    LET s == parse.input
    IN (\/ s = <<>> \/ Unbalanced(s) \/ LacksClosing(s) \/ EmptyTool(s)
        \/ EmptyCommand(s) \/ ManyColons(s)) => ~parse.out.ok

\* C22: every ToolPermission that a successful ParseToolPermission returns,
\* in legacy form as well as in enhanced form, has a non-empty tool name.
C22_Original == parse.pc = "done" /\ parse.out.ok => parse.out.Tool # <<>>

\* C23: for every input on which ParseToolPermission succeeds, the result's
\* Original and String() equal the input character for character, and
\* parsing String() again succeeds with the same Tool, Command, Pattern and
\* Original.
C23_RoundTrip ==
  /\ parse.pc # "none" /\ parse.out.ok => parse.out.Original = parse.input
  /\ parse.pc \in {"printed", "reparsed"} => parse.str = parse.input
  /\ parse.pc = "reparsed" =>
       /\ parse.again.ok
       /\ parse.again.Tool = parse.out.Tool
       /\ parse.again.Command = parse.out.Command
       /\ parse.again.Pattern = parse.out.Pattern
       /\ parse.again.Original = parse.out.Original
\* " a(a )" has been parsed, printed and parsed again: the spaces are kept in
\* Original and String(), and are not in Tool and Command
C23_Witness ==
  /\ parse.pc = "reparsed"
  /\ parse.input = <<" ", "a", "(", "a", " ", ")">>
  /\ parse.str = parse.input /\ parse.again.Original = parse.input
  /\ parse.again.Tool = <<"a">> /\ parse.again.Command = <<"a">>

\* C24: MatchesPattern(path) is the decision taken in this order: true with
\* no pattern; true for the pattern "*"; true when pattern and path are
\* equal; for a pattern ending in "**", whether path starts with the pattern
\* less the "**"; for one ending in "*", whether path starts with the
\* pattern less that "*"; for one starting with "*", whether path ends with
\* the pattern less that "*"; false otherwise.
C24_Reference(pattern, path) ==
  LET n == Len(pattern)
      m == Len(path)
      \* path begins with the first k characters of pattern
      Starts(k) == k <= m /\ \A i \in 1..k : path[i] = pattern[i]
      \* path ends with the characters of pattern after the first
      Ends == n - 1 <= m /\ \A i \in 2..n : path[m - n + i] = pattern[i]
  IN IF n = 0 THEN TRUE
     ELSE IF n = 1 /\ pattern[1] = "*" THEN TRUE
     ELSE IF pattern = path THEN TRUE
     ELSE IF n >= 2 /\ pattern[n] = "*" /\ pattern[n - 1] = "*" THEN Starts(n - 2)
     ELSE IF pattern[n] = "*" THEN Starts(n - 1)
     ELSE IF pattern[1] = "*" THEN Ends
     ELSE FALSE
C24_MatchesPattern ==
  match.pc = "done" =>
    /\ match.out = C24_Reference(match.pattern, match.path)
    /\ match.pattern = <<"a", "*", "*">> =>
         /\ match.path = <<"a", "b">> => match.out
         /\ match.path = <<"b", "b">> => ~match.out
    /\ match.pattern = <<"*", "a">> =>
         /\ match.path = <<"b", "a">> => match.out
         /\ match.path = <<"b", "b">> => ~match.out
\* the pattern "a**" has been matched with the path "ab"
C24_Witness ==
  /\ match.pc = "done" /\ match.out
  /\ match.pattern = <<"a", "*", "*">> /\ match.path = <<"a", "b">>

\* ---------------------------------------------------------------------
\* C25: CanSpend(amount) returns true when MaxBudgetUSD <= 0 and otherwise
\* true exactly when totalSpent + amount <= MaxBudgetUSD (spending the exact
\* remainder is allowed), and it changes neither the totals nor the
\* per-session amounts nor the warning latch. The sum is float64's.
C25_Returns ==
  bthr[Main].op = "CanSpend" /\ bthr[Main].pc = "ret" =>
    (bthr[Main].ret.e = "true" <=>
       \/ config.MaxBudgetUSD <= 0
       \/ Fl(totalSpent + bthr[Main].amount) <= config.MaxBudgetUSD)
C25_Pure ==
  bthr[Main].op = "CanSpend" \/ bthr'[Main].op = "CanSpend" =>
    UNCHANGED <<totalSpent, sessionSpent, warningEmitted>>
C25_CanSpend == []C25_Returns /\ [][C25_Pure]_vars
\* CanSpend(5) has answered true with 5 spent of 10
C25_Witness ==
  /\ bthr[Main].op = "CanSpend" /\ bthr[Main].pc = "ret"
  /\ bthr[Main].ret.e = "true" /\ bthr[Main].amount = 5
  /\ totalSpent = 5 /\ config.MaxBudgetUSD = 10

\* C26: RemainingBudget() returns -1 when MaxBudgetUSD <= 0 and otherwise
\* the larger of 0 and MaxBudgetUSD - totalSpent; with a positive maximum it
\* is never negative, and it is 0 whenever the total is at or above the
\* maximum. The difference is float64's.
C26_RemainingBudget ==
  bthr[Main].op = "RemainingBudget" /\ bthr[Main].pc = "ret" =>
    LET r == bthr[Main].ret.v
        d == Fl(config.MaxBudgetUSD - totalSpent)
    IN /\ bthr[Main].ret.e = "value"
       /\ r = IF config.MaxBudgetUSD <= 0 THEN -1 ELSE IF d > 0 THEN d ELSE 0
       /\ config.MaxBudgetUSD > 0 => r >= 0
       /\ config.MaxBudgetUSD > 0 /\ totalSpent >= config.MaxBudgetUSD => r = 0
\* RemainingBudget() has returned 0 with 11 spent of 10
C26_Witness ==
  /\ bthr[Main].op = "RemainingBudget" /\ bthr[Main].pc = "ret"
  /\ bthr[Main].ret.v = 0 /\ totalSpent = 11 /\ config.MaxBudgetUSD = 10

\* C27: ResetSession(id) lowers totalSpent by the amount recorded for id (a
\* float64 subtraction) and removes id's entry, leaves every other session's
\* amount and the config unchanged, and changes nothing when id has no
\* entry; with a maximum of 10, 11 spent and all of it recorded for s1,
\* ResetSession(s1) brings the total and s1's amount to 0.
C27_Step ==
  bthr[Main].op = "ResetSession" /\ bthr[Main].pc # "idle" =>
    LET id == bthr[Main].id
    IN IF bthr[Main].pc = "crit" /\ sessionSpent[id].has
       THEN /\ totalSpent' = Fl(totalSpent - sessionSpent[id].v)
            /\ ~sessionSpent'[id].has
            /\ \A other \in SessionIds \ {id} : sessionSpent'[other] = sessionSpent[other]
            /\ config' = config
            /\ (/\ config.MaxBudgetUSD = 10 /\ totalSpent = 11
                /\ sessionSpent[id].v = 11) =>
                 totalSpent' = 0 /\ SessionValue(sessionSpent', id) = 0
       ELSE UNCHANGED <<totalSpent, sessionSpent, config>>
C27_ResetSession == [][C27_Step]_vars
\* ResetSession(s1) has run after a spend of 11 on s1 that exceeded the
\* maximum of 10: nothing is left
C27_Witness ==
  /\ bthr[Main].op = "ResetSession" /\ bthr[Main].pc = "ret" /\ bthr[Main].id = "s1"
  /\ totalSpent = 0 /\ ~sessionSpent["s1"].has /\ ~sessionSpent["s2"].has
  /\ addErr = "ErrBudgetExceeded" /\ config.MaxBudgetUSD = 10

\* ---------------------------------------------------------------------
\* C28: the path-scope filter decides in this order: a tool that is not a
\* file tool, or an empty path, is allowed; a path that starts with a denied
\* prefix is denied even when it also starts with an allowed prefix; with a
\* non-empty allow-list a path that starts with no allowed prefix is denied;
\* everything else is allowed. As claimed, the file tools are the
\* file-mutating tools, Write and Edit.
StartsWith(path, prefix) ==
  Len(prefix) <= Len(path) /\ \A i \in 1..Len(prefix) : path[i] = prefix[i]
StartsWithAny(path, list) == \E k \in 1..Len(list) : StartsWith(path, list[k])
C28_Decision(tools) ==
  IF scope.toolName \notin tools \/ scope.filePath = <<>> THEN "allow"
  ELSE IF StartsWithAny(scope.filePath, scope.deniedPaths) THEN "deny"
  ELSE IF scope.allowedPaths # <<>> /\ ~StartsWithAny(scope.filePath, scope.allowedPaths)
  THEN "deny"
  ELSE "allow"
C28_Original ==
  scope.pc = "done" => scope.out.behavior = C28_Decision({"Write", "Edit"})
\* C28 with the file tools the code names: Read, Write and Edit
C28_PathScope ==
  scope.pc = "done" => scope.out.behavior = C28_Decision({"Read", "Write", "Edit"})
\* Write on "ab" is denied by the denied prefix "ab" though "a" is allowed
C28_Witness ==
  /\ scope.pc = "done" /\ scope.toolName = "Write"
  /\ scope.filePath = <<"a", "b">>
  /\ scope.allowedPaths = <<<<"a">>>> /\ scope.deniedPaths = <<<<"a", "b">>>>
  /\ scope.out.behavior = "deny"

\* ---------------------------------------------------------------------
\* C29: when a plugin's Initialize hook fails during Initialize, no plugin
\* that sorts after it is initialized, nothing is done to the plugins
\* initialized before it, the error returned names the failing plugin and
\* the manager is not marked initialized; a following Initialize call
\* therefore starts over and invokes the Initialize hook of the earlier
\* plugins a second time (of each that is still enabled and that the call
\* reaches before a hook fails again).
IndexOf(seq, x) ==
  IF \E k \in 1..Len(seq) : seq[k] = x
  THEN Min({k \in 1..Len(seq) : seq[k] = x}) ELSE 0
C29_Failing(t) ==
  LET calls == thr[t].calls
      n == Len(calls)
  IN /\ n >= 1 /\ calls[n].res # "nil"
     /\ \A k \in 1..(n - 1) : calls[k].res = "nil"
     /\ CallNames(t) = SubSeq(OnNames(plugins), 1, n)
     /\ thr[t].err = Wrap("failed to initialize plugin", calls[n].plugin, calls[n].res)
     /\ ~initialized
     /\ plugins = thr[t].pre.plugins /\ configs = thr[t].pre.configs
C29_Following(t) ==
  /\ ~thr[t].pre.initialized
  /\ \A k \in 1..Len(life.done) :
       LET at == IndexOf(OnNames(plugins), life.done[k])
       IN at # 0 =>
            \/ at <= Len(thr[t].calls) /\ thr[t].calls[at].plugin = life.done[k]
            \/ thr[t].err # NoErr /\ Len(thr[t].calls) < at
WarningsIn(bag) ==
  BagCardinality([c \in {x \in BagToSet(bag) : x.kind = "warning"} |-> bag[c]])
C31_Armed ==
  /\ config.MaxBudgetUSD > 0 /\ config.WarningThreshold > 0
  /\ config.OnBudgetWarning
C31_Step ==
  /\ warningEmitted /\ ~warningEmitted' =>
       Reset \/ \E c \in CallbackConfigs : UpdateConfig(c)
  /\ Reset \/ (\E c \in CallbackConfigs : UpdateConfig(c)) => ~warningEmitted'
  /\ (\E c \in CallbackConfigs : UpdateConfig(c)) =>
       totalSpent' = totalSpent /\ sessionSpent' = sessionSpent
  /\ ResetSession(CbSession) => warningEmitted' = warningEmitted
  /\ \A amount \in CbAmounts : AddSpend(CbSession, amount) =>
       WarningsIn(spawned') =
         WarningsIn(spawned) +
           (IF /\ ~warningEmitted /\ C31_Armed
               /\ 2 * totalSpent' >= config.MaxBudgetUSD * config.WarningThreshold
            THEN 1 ELSE 0)
C31_Rearm == [][C31_Step]_vars
\* a warning was started at a total of 5 and, the latch having been re-armed,
\* another one at a total of 10
C31_Witness ==
  /\ warningEmitted /\ totalSpent = 10
  /\ spawned = SetToBag({Callback("warning", 5, 10), Callback("warning", 10, 10)})

\* ---------------------------------------------------------------------
\* C32: a hook that, while a method of the manager runs it, calls Unregister,
\* SetEnabled, Initialize, Shutdown, or Register with a plugin that passes
\* the argument checks, never returns: the call stays at the lock, the
\* method that runs the hook stays where it is, and once the call waits for
\* the lock no step of the manager is possible. A Register that fails its
\* argument checks returns its error before the lock.
C32_Blocked(u) ==
  \/ thr[u].pc = "LockWait"
  \/ thr[u].pc = "Lock" /\ mu.w # {}
C32_Step ==
  thr[Main].pc = "hook" /\ thr[Inner].pc # "ret" =>
    /\ thr[Inner].pc \in {"Lock", "LockWait"}
    /\ thr'[Main] = thr[Main]
    /\ thr'[Inner].pc \in {"Lock", "LockWait"}
    /\ UNCHANGED <<plugins, configs, initialized>>
C32_State ==
  thr[Main].pc = "hook" =>
    /\ thr[Inner].pc = "ret" =>
         thr[Inner].op = "Register" /\ ArgError(thr[Inner].plugin) # NoErr
    /\ C32_Blocked(Inner) => ~ENABLED NextHook
    /\ thr[Inner].pc # "ret" /\ ~C32_Blocked(Inner) => thr[Inner].pc = "Lock"
C32_Deadlock == []C32_State /\ [][C32_Step]_vars
\* the hook of an OnMessage dispatch called SetEnabled, which waits for the
\* read lock its own caller holds
C32_Witness ==
  /\ thr[Main].pc = "hook" /\ thr[Main].op = "OnMessage"
  /\ thr[Inner].pc = "LockWait" /\ thr[Inner].op = "SetEnabled"
  /\ mu.readers = {Main}
\* the hook of an Initialize called Shutdown
C32_WitnessHeld ==
  /\ thr[Main].pc = "hook" /\ thr[Main].op = "Initialize"
  /\ thr[Inner].pc = "Lock" /\ thr[Inner].op = "Shutdown"
  /\ mu.w = {Main}
\* the claim as it stands: no call a hook makes of a mutating method returns
C32_Original == ~(thr[Main].pc = "hook" /\ thr[Inner].pc = "ret")

\* ---------------------------------------------------------------------
\* C33: Unregister(name) of a name that is not registered returns an error
\* and leaves the registry as it is; of a registered name it returns nil,
\* removes that entry and no other, keeps the remaining entries in their
\* order with their configs, and leaves the name free for Register. It
\* invokes no hook, and the hooks a method invokes are those of plugins that
\* are registered, so a later Shutdown does not reach the removed plugin.
C33_Step ==
  /\ Unregister(Main) =>
       LET n == thr[Main].plugin
       IN /\ thr'[Main].calls = <<>>
          /\ initialized' = initialized
          /\ IF IsRegistered(plugins, n)
             THEN /\ thr'[Main].err = NoErr
                  /\ plugins' = SelectSeq(plugins, LAMBDA e : e.plugin # n)
                  /\ Len(plugins') = Len(plugins) - 1
                  /\ \A k \in 1..Len(plugins') :
                       plugins'[k].config # NilCfg =>
                         configs'[plugins'[k].config] = configs[plugins'[k].config]
             ELSE /\ thr'[Main].err = Err("not found", n)
                  /\ plugins' = plugins /\ configs' = configs
  /\ RegisterCheck(Main) /\ ~IsRegistered(plugins, thr[Main].plugin) =>
       thr'[Main].pc = "insert"
  /\ RegisterInsert(Main, AnyCfgArgs(plugins)) =>
       IsRegistered(plugins', thr[Main].plugin) /\ thr'[Main].err = NoErr
C33_Reached ==
  \A k \in 1..Len(thr[Main].calls) :
    IsRegistered(plugins, thr[Main].calls[k].plugin)
C34_On(cf, ps) == {ps[k].plugin : k \in {l \in 1..Len(ps) : cf[ps[l].config].Enabled}}

C34_State ==
  /\ \A t \in Threads : AtRet(t, {"SetEnabled"}) =>
       IF IsRegistered(thr[t].pre.plugins, thr[t].plugin)
       THEN /\ thr[t].err = NoErr
            /\ plugins = thr[t].pre.plugins
            /\ (thr[t].plugin \in C34_On(configs, plugins)) = thr[t].enabled
       ELSE /\ thr[t].err = Err("not found", thr[t].plugin)
            /\ Snapshot = thr[t].pre
  /\ \A t \in Threads : thr[t].op \in DispatchOps /\ HoldsLock(t) =>
       /\ plugins = thr[t].pre.plugins /\ configs = thr[t].pre.configs
       /\ \A k \in 1..Len(thr[t].calls) :
            thr[t].calls[k].plugin \in C34_On(thr[t].pre.configs, thr[t].pre.plugins)
       /\ \A a, b \in 1..Len(thr[t].calls) : a < b =>
            \E x, y \in 1..Len(plugins) :
              /\ x < y
              /\ plugins[x].plugin = thr[t].calls[a].plugin
              /\ plugins[y].plugin = thr[t].calls[b].plugin
       /\ thr[t].pc = "ret" /\ Failed(t) = {} =>
            \A n \in C34_On(thr[t].pre.configs, thr[t].pre.plugins) :
              \E k \in 1..Len(thr[t].calls) : thr[t].calls[k].plugin = n
C34_Step ==
  \A n \in Names :
    /\ IsRegistered(plugins, n) /\ IsRegistered(plugins', n)
    /\ (n \in C34_On(configs, plugins)) # (n \in C34_On(configs', plugins'))
    => \E t \in Threads :
         /\ thr[t].op = "SetEnabled" /\ thr[t].plugin = n
         /\ thr[t].pc = "crit" /\ thr'[t].pc = "ret"
         /\ thr[t].enabled = (n \in C34_On(configs', plugins'))
C35_Original ==
  AtRet(Main, {"SetEnabled"}) =>
    /\ NameList(plugins) = NameList(thr[Main].pre.plugins)
    /\ initialized = thr[Main].pre.initialized
    /\ \A k \in 1..Len(plugins) :
         plugins[k].plugin # thr[Main].plugin =>
           Disabled(configs, plugins[k]) =
             Disabled(thr[Main].pre.configs, thr[Main].pre.plugins[k])

\* ---------------------------------------------------------------------
\* C36: a plugin whose OnToolCall, OnMessage or OnComplete hook is invoked
\* while the manager is marked initialized has had its Initialize hook
\* invoked since the last Shutdown.
C36_Original ==
  thr[Main].op \in DispatchOps /\ initialized =>
    \A k \in 1..Len(thr[Main].calls) :
      \E d \in 1..Len(life.done) : life.done[d] = thr[Main].calls[k].plugin

\* ---------------------------------------------------------------------
\* an AddSpend(amount) of goroutine t has its result, and the call of t
\* before it was CanSpend(amount)
C37_Case(t) ==
  /\ bthr[t].op = "AddSpend" /\ bthr[t].pc = "ret"
  /\ bthr[t].saw.add = "none" /\ bthr[t].saw.amount = bthr[t].amount

\* C37 as it stands, second half: two goroutines have each seen CanSpend(a)
\* return true and have then each called AddSpend(a); both calls return nil
C37_Original ==
  \A t, u \in BtThreads :
    /\ t # u /\ C37_Case(t) /\ bthr[t].saw.can
    /\ bthr[u].saw.can /\ bthr[u].saw.amount = bthr[t].amount
    /\ bthr[u].saw.add \notin {"none", "unseen"}
    => bthr[t].ret.e = "nil"

\* C37 as amended: with a positive maximum and the total that CanSpend(amount)
\* saw still in place, AddSpend(session, amount) returns ErrBudgetExceeded
\* exactly if CanSpend returned false. CanSpend reserves nothing: AddSpend
\* decides by the total it finds under the lock, so of two goroutines that
\* have both seen CanSpend(a) return true the one whose AddSpend(a) comes
\* second returns ErrBudgetExceeded when the total with both amounts is above
\* the maximum, and nil otherwise.
C37_CheckThenAdd ==
  \A t \in BtThreads : C37_Case(t) =>
    /\ config.MaxBudgetUSD > 0 /\ bthr[t].total = bthr[t].saw.total =>
         ((bthr[t].ret.e = "ErrBudgetExceeded") = ~bthr[t].saw.can)
    /\ (bthr[t].ret.e = "ErrBudgetExceeded") =
         (config.MaxBudgetUSD > 0 /\ totalSpent > config.MaxBudgetUSD)
    /\ totalSpent = FAdd(bthr[t].total, bthr[t].amount)
    /\ bthr[t].ret.e \in {"nil", "ErrBudgetExceeded"}
\* both goroutines saw CanSpend(6) return true with a maximum of 10; the
\* first AddSpend(6) returned nil, the second returns ErrBudgetExceeded
C37_Witness ==
  \E t, u \in BtThreads :
    /\ t # u /\ C37_Case(t) /\ bthr[t].saw.can /\ bthr[t].amount = 6
    /\ bthr[u].saw = [amount |-> 6, can |-> TRUE, total |-> 0, add |-> "nil"]
    /\ bthr[t].ret.e = "ErrBudgetExceeded" /\ totalSpent = 12

\* ---------------------------------------------------------------------
\* C38: with a positive maximum and the total above it, every AddSpend of an
\* amount that is not negative, for any session, returns ErrBudgetExceeded
\* and starts the exceeded callback once more (no latch holds it back); the
\* total stays above the maximum until a Reset, a ResetSession or an
\* UpdateConfig ends that.
C38_Over == config.MaxBudgetUSD > 0 /\ totalSpent > config.MaxBudgetUSD
ExceededIn(bag) ==
  BagCardinality([c \in {x \in BagToSet(bag) : x.kind = "exceeded"} |-> bag[c]])
C38_Step ==
  /\ \A id \in SessionIds, amount \in OverAmounts :
       C38_Over /\ AddSpend(id, amount) =>
         /\ addErr' = "ErrBudgetExceeded"
         /\ totalSpent' > config.MaxBudgetUSD
         /\ ExceededIn(spawned') =
              ExceededIn(spawned) + (IF config.OnBudgetExceeded THEN 1 ELSE 0)
         /\ config.OnBudgetExceeded =>
              BagIn(Callback("exceeded", totalSpent', config.MaxBudgetUSD), spawned')
  /\ C38_Over /\ ~C38_Over' =>
       \/ Reset
       \/ \E id \in SessionIds : ResetSession(id)
       \/ \E c \in OverConfigs : UpdateConfig(c)
C38_ExceededAgain == [][C38_Step]_vars
\* with the total at 12 and a maximum of 10, an AddSpend of 0 has started the
\* exceeded callback a second time
C38_Witness ==
  /\ C38_Over /\ totalSpent = 12 /\ addErr = "ErrBudgetExceeded"
  /\ CopiesIn(Callback("exceeded", 12, 10), spawned) = 2

\* ---------------------------------------------------------------------
\* C39: the goroutine that AddSpend starts for a callback carries the total
\* and the maximum as they are when that AddSpend has added its amount; the
\* calls that complete before the goroutine runs (AddSpend, Reset,
\* ResetSession, UpdateConfig) change nothing in it, and the goroutines that
\* wait may run in any order.
C39_Started(cb) == CopiesIn(cb, spawned') > CopiesIn(cb, spawned)
C39_Kept == \A cb \in BagToSet(spawned) : CopiesIn(cb, spawned') >= CopiesIn(cb, spawned)
C39_Step ==
  /\ \A amount \in CbAmounts : AddSpend(CbSession, amount) =>
       /\ C39_Kept
       /\ \A cb \in BagToSet(spawned') : C39_Started(cb) =>
            /\ cb.kind \in {"warning", "exceeded"}
            /\ cb.current = totalSpent' /\ cb.max = config.MaxBudgetUSD
            /\ config' = config
  /\ (Reset \/ ResetSession(CbSession) \/ \E c \in CallbackConfigs : UpdateConfig(c))
       => spawned' = spawned
  /\ RunCallback =>
       \E cb \in BagToSet(spawned) : spawned' = spawned (-) SetToBag({cb})
C39_AnyOrder ==
  \A cb \in BagToSet(spawned) :
    ENABLED (RunCallback /\ spawned' = spawned (-) SetToBag({cb}))
C39_Arguments == []C39_AnyOrder /\ [][C39_Step]_vars
\* two goroutines wait with the totals 5 and 11 and the maximum 10 of their
\* AddSpend calls, after a Reset and an UpdateConfig that left neither
C39_Witness ==
  /\ totalSpent = 0 /\ config.MaxBudgetUSD = 0
  /\ spawned = SetToBag({[kind |-> "warning", current |-> 5, max |-> 10],
                         [kind |-> "exceeded", current |-> 11, max |-> 10]})

\* ---------------------------------------------------------------------
\* C40: for all functions a, b and c, the chains Chain(Chain(a, b), c),
\* Chain(a, Chain(b, c)) and Chain(a, b, c) return the same result and the
\* same error and call the same functions in the same order.
C40_Associative ==
  nested.pc = "done" =>
    /\ nested.left = nested.flat
    /\ nested.right = nested.flat
\* a and b allow and c asks: each chain has called a, b and c and returns
\* c's result
C40_Witness ==
  /\ nested.pc = "done"
  /\ nested.a = Fn(Result("allow", "m"), "nil")
  /\ nested.b = Fn(Result("allow", ""), "nil")
  /\ nested.c = Fn(Result("ask", "m"), "nil")
  /\ nested.left = [result |-> Result("ask", "m"), err |-> "nil", invoked |-> <<1, 2, 3>>]

====
